---- MODULE Spec2Model ----
(***************************************************************************)
(* Model of the Doris target connector                                     *)
(* (vendor/cocoindex/python/cocoindex/targets/doris.py).                   *)
(*                                                                         *)
(*   SpecRetry   with_retry, the exponential-backoff executor              *)
(*   SpecCompat  _Connector.check_state_compatibility                      *)
(*   SpecMutate  _Connector.prepare / mutate, one call after the other     *)
(*   SpecConcurrent  mutate calls of two tasks                             *)
(*   SpecChunk   one mutate call on one pair, its chunks                   *)
(*   SpecShared  mutate calls of two tasks on one table, two contexts      *)
(*   SpecState   _Connector.get_setup_state                                *)
(*   SpecSetup   _Connector.apply_setup_change and _sync_indexes           *)
(*   SpecWait    _wait_for_schema_change and _wait_for_index_build alone   *)
(*   SpecWaitFair  the same with time advancing                            *)
(*   SpecLoad    _stream_load, one bulk load request under with_retry      *)
(*                                                                         *)
(* Delays are floats in the source; the model takes them from the          *)
(* integers, where min, product and power are exact.                       *)
(***************************************************************************)
EXTENDS Integers, Sequences, FiniteSets, TLC

VARIABLES
    \* ---- with_retry ----
    config,        \* RetryConfig passed to with_retry
    aiohttp,       \* whether the aiohttp package can be imported
    pc,            \* position of with_retry: "call", "sleep", "done"
    attempt,       \* loop variable of with_retry
    invocations,   \* outcome of every invocation of operation(), in order
    sleeps,        \* delay of every completed asyncio.sleep, in order
    warnings,      \* number of _logger.warning calls
    last_error,    \* local last_error (None before the first failure)
    outcome,       \* what with_retry returned or raised
    \* ---- check_state_compatibility ----
    previous,      \* _State of the previous deployment
    current,       \* _State of the current deployment (get_setup_state's result)
    compat,        \* result of check_state_compatibility, "None" before the call
    \* ---- prepare / mutate / the table store ----
    spec,          \* DorisTarget fields read by mutate: batch_size, max_retries
    setup_state,   \* the _State handed to prepare: key and value fields
    contexts,      \* _MutateContext per context: table, lock holder, lock waiters
    table,         \* rows of every table of the store (a bag per table)
    calls,         \* one mutate call per task: arguments, position, locals
    history,       \* bookkeeping of what happened (read by the properties only)
    \* ---- apply_setup_change / the table of the store ----
    store,         \* the table in the store: columns, indexes, rows, jobs
    setup,         \* the apply_setup_change call: arguments, position, locals
    statements     \* every statement and wait the call issued, in order

retryVars == <<config, aiohttp, pc, attempt, invocations, sleeps, warnings,
               last_error, outcome>>
compatVars == <<previous, current, compat>>
mutateVars == <<spec, setup_state, contexts, table, calls, history>>
setupVars == <<store, setup, statements>>
vars == <<retryVars, compatVars, mutateVars, setupVars>>

None == [cls |-> "None"]

\* The parts of the state a specification does not use stay as they are here.
RetryIdle ==
    /\ config = None
    /\ aiohttp = FALSE
    /\ pc = "idle"
    /\ attempt = 0
    /\ invocations = <<>>
    /\ sleeps = <<>>
    /\ warnings = 0
    /\ last_error = None
    /\ outcome = None

CompatIdle ==
    /\ previous = None
    /\ current = None
    /\ compat = "None"

MutateIdle ==
    /\ spec = None
    /\ setup_state = None
    /\ contexts = <<>>
    /\ table = <<>>
    /\ calls = <<>>
    /\ history = None

SetupIdle ==
    /\ store = None
    /\ setup = None
    /\ statements = <<>>

Min(a, b) == IF a <= b THEN a ELSE b

RECURSIVE Pow(_, _)
Pow(b, e) == IF e = 0 THEN 1 ELSE b * Pow(b, e - 1)

(***************************************************************************)
(* Bounds                                                                  *)
(***************************************************************************)
MaxRetriesBound == 2

(***************************************************************************)
(* RETRY LOGIC                                                             *)
(***************************************************************************)

\* Exception classes an operation can raise.  code is args[0] of a pymysql
\* error (0 where the class carries none).
OperationalCodes == {2003, 2006, 2013, 1040, 1205, 1064, 1146, 1045}

ErrorClasses ==
    {"TimeoutError", "ConnectionError", "ConnectionResetError",
     "ConnectionRefusedError", "BrokenPipeError", "ClientConnectorError",
     "ServerDisconnectedError", "InterfaceError", "ProgrammingError",
     "DorisStreamLoadError", "DorisAuthError", "ValueError"}

Errors ==
    [cls : ErrorClasses, code : {0}]
        \cup [cls : {"OperationalError"}, code : OperationalCodes]
        \cup [cls : {"OperationalError"}, code : {0}]

\* Python's class hierarchy, as far as isinstance() below needs it.
Bases(cls) ==
    CASE cls \in {"ConnectionResetError", "ConnectionRefusedError",
                  "BrokenPipeError"} -> {cls, "ConnectionError"}
      [] cls = "DorisAuthError" -> {cls, "DorisConnectionError", "DorisError"}
      [] cls = "DorisStreamLoadError" -> {cls, "DorisError"}
      [] OTHER -> {cls}

IsInstance(e, classes) == Bases(e.cls) \cap classes # {}

retryable_codes == {2003, 2006, 2013, 1040, 1205}

\* A mutation of _is_retryable_mysql_error that forgets the error code.
IsRetryableMysqlErrorAnyCode(e) ==
    e.cls \in {"OperationalError", "InterfaceError"}

\* _is_retryable_mysql_error.  An OperationalError with empty args is
\* modelled by code 0; it falls through to the InterfaceError test.
IsRetryableMysqlError(e) ==
    IF e.cls = "OperationalError" /\ e.code # 0
    THEN e.code \in retryable_codes
    ELSE e.cls = "InterfaceError"

\* _get_retryable_errors
GetRetryableErrors(withAiohttp) ==
    LET base_errors == {"TimeoutError", "ConnectionError",
                        "ConnectionResetError", "ConnectionRefusedError"}
    IN  IF withAiohttp
        THEN base_errors \cup {"ClientConnectorError", "ServerDisconnectedError"}
        ELSE base_errors

\* is_retryable of with_retry
IsRetryable(e, withAiohttp) ==
    IsInstance(e, GetRetryableErrors(withAiohttp)) \/ IsRetryableMysqlError(e)

\* A mutation of the loop bound: one attempt too few.
InRangeShort(cfg, att) == att < cfg.max_retries

\* for attempt in range(config.max_retries + 1)
InRange(cfg, att) == att < cfg.max_retries + 1

\* A mutation of the delay: the cap is forgotten.
RetryDelayNoCap(cfg, att) == cfg.base_delay * Pow(cfg.exponential_base, att)

\* delay = min(base_delay * exponential_base ** attempt, max_delay)
RetryDelay(cfg, att) ==
    Min(cfg.base_delay * Pow(cfg.exponential_base, att), cfg.max_delay)

RetryConfigs ==
    [max_retries : 0..MaxRetriesBound, base_delay : {1, 2},
     max_delay : {3, 5}, exponential_base : {2, 3}]

ReturnValues == {"r1", "r2"}

\* What one invocation of operation() can do; an aiohttp exception needs
\* the package.
InvocationOutcomes(withAiohttp) ==
    [kind : {"return"}, value : ReturnValues]
        \cup [kind : {"raise"},
              error : {e \in Errors :
                         e.cls \in {"ClientConnectorError",
                                    "ServerDisconnectedError"} => withAiohttp}]

\* raise DorisConnectionError(f"... failed after {max_retries + 1} attempts",
\*                            cause=last_error)
DorisConnectionError(cfg, cause) ==
    [kind |-> "raise",
     error |-> [cls |-> "DorisConnectionError",
                attempts |-> cfg.max_retries + 1,
                cause |-> cause]]

\* The error of the n-th invocation; n identifies the exception object.
Raised(e, n) == [cls |-> e.cls, code |-> e.code, id |-> n]

\* End of one loop iteration: the next one, or the raise behind the loop.
LoopNext(err) ==
    /\ attempt' = attempt + 1
    /\ IF InRange(config, attempt + 1)
       THEN pc' = "call" /\ outcome' = outcome
       ELSE pc' = "done" /\ outcome' = DorisConnectionError(config, err)

\* await operation() and the except block, up to the sleep.
Invoke ==
    /\ pc = "call"
    /\ \E r \in InvocationOutcomes(aiohttp) :
         LET n == Len(invocations) + 1
             res == IF r.kind = "return" THEN r
                    ELSE [kind |-> "raise", error |-> Raised(r.error, n)]
         IN
         /\ invocations' = Append(invocations, res)
         /\ IF res.kind = "return"
            THEN /\ outcome' = res
                 /\ pc' = "done"
                 /\ UNCHANGED <<attempt, warnings, last_error>>
            ELSE IF ~IsRetryable(res.error, aiohttp)
            THEN /\ outcome' = res
                 /\ pc' = "done"
                 /\ UNCHANGED <<attempt, warnings, last_error>>
            ELSE /\ last_error' = res.error
                 /\ IF attempt < config.max_retries
                    THEN /\ warnings' = warnings + 1
                         /\ pc' = "sleep"
                         /\ UNCHANGED <<attempt, outcome>>
                    ELSE /\ LoopNext(res.error)
                         /\ UNCHANGED warnings
    /\ UNCHANGED <<config, aiohttp, sleeps>>
    /\ UNCHANGED <<compatVars, mutateVars, setupVars>>

\* await asyncio.sleep(delay) returns; the loop goes on.
Sleep ==
    /\ pc = "sleep"
    /\ sleeps' = Append(sleeps, RetryDelay(config, attempt))
    /\ LoopNext(last_error)
    /\ UNCHANGED <<config, aiohttp, invocations, warnings, last_error>>
    /\ UNCHANGED <<compatVars, mutateVars, setupVars>>

\* with_retry entered: the loop starts at attempt 0 (an empty range raises
\* at once, which max_retries >= 0 excludes).
InitRetry ==
    /\ config \in RetryConfigs
    /\ aiohttp \in BOOLEAN
    /\ pc = "call"
    /\ attempt = 0
    /\ invocations = <<>>
    /\ sleeps = <<>>
    /\ warnings = 0
    /\ last_error = None
    /\ outcome = None
    /\ CompatIdle
    /\ MutateIdle
    /\ SetupIdle

NextRetry == Invoke \/ Sleep

SpecRetry == InitRetry /\ [][NextRetry]_vars

(***************************************************************************)
(* Claims about with_retry (checked under SpecRetry)                       *)
(***************************************************************************)

RetryableFailure(res) ==
    res.kind = "raise" /\ IsRetryable(res.error, aiohttp)

AllFailedRetryably ==
    \A i \in 1..Len(invocations) : RetryableFailure(invocations[i])

\* C1: when every invocation of the operation fails with a retryable error,
\* with_retry ends only after exactly max_retries + 1 invocations, and it
\* ends by raising a DorisConnectionError that reports max_retries + 1
\* attempts and carries the error of the last invocation as its cause.
C1_RetryExhaustion ==
    (pc = "done" /\ AllFailedRetryably) =>
        /\ Len(invocations) = config.max_retries + 1
        /\ outcome.kind = "raise"
        /\ outcome.error.cls = "DorisConnectionError"
        /\ outcome.error.attempts = config.max_retries + 1
        /\ outcome.error.cause = invocations[Len(invocations)].error
        /\ outcome.error.cause.id = config.max_retries + 1

C1_Witness ==
    /\ pc = "done"
    /\ config.max_retries = 2
    /\ Len(invocations) = 3
    /\ AllFailedRetryably
    /\ outcome.kind = "raise"
    /\ outcome.error.cls = "DorisConnectionError"

\* C2: when the first k invocations fail retryably and invocation k+1
\* succeeds, with_retry has returned that value after k+1 invocations, k
\* sleeps of min(base_delay * exponential_base^i, max_delay), i = 0..k-1,
\* and k warnings; for k = 0 no sleep and no warning.
C2_SucceedsAfterFailures ==
    LET n == Len(invocations) IN
    (n >= 1 /\ invocations[n].kind = "return") =>
        /\ pc = "done"
        /\ outcome = invocations[n]
        /\ n - 1 <= config.max_retries
        /\ \A i \in 1..(n - 1) : RetryableFailure(invocations[i])
        /\ Len(sleeps) = n - 1
        /\ \A i \in 0..(n - 2) :
             sleeps[i + 1] =
                 Min(config.base_delay * Pow(config.exponential_base, i),
                     config.max_delay)
        /\ warnings = n - 1

\* two retryable failures, then success, the second delay capped
C2_Witness ==
    /\ pc = "done"
    /\ Len(invocations) = 3
    /\ invocations[3].kind = "return"
    /\ outcome.kind = "return"
    /\ sleeps = <<config.base_delay, config.max_delay>>
    /\ config.base_delay * config.exponential_base > config.max_delay

\* Non-retryable as C3 words it: not an instance of the retryable error
\* types and not a store connection error with an allow-listed code.
C3_StatedNonRetryable(e) ==
    /\ ~IsInstance(e, GetRetryableErrors(aiohttp))
    /\ ~(e.cls = "OperationalError" /\ e.code \in {2003, 2006, 2013, 1040, 1205})

\* C3 as stated: an invocation failing with such an error ends with_retry
\* at once with that same error: no sleep, no further invocation, no
\* DorisConnectionError.
C3_Original ==
    LET n == Len(invocations) IN
    (n >= 1 /\ invocations[n].kind = "raise"
            /\ C3_StatedNonRetryable(invocations[n].error)) =>
        /\ pc = "done"
        /\ outcome = invocations[n]

\* C3 amended: the same, for errors that in addition are not a
\* pymysql InterfaceError (which the code retries whatever its arguments).
C3_NonRetryablePropagates ==
    LET n == Len(invocations) IN
    (n >= 1 /\ invocations[n].kind = "raise"
            /\ C3_StatedNonRetryable(invocations[n].error)
            /\ invocations[n].error.cls # "InterfaceError") =>
        /\ pc = "done"
        /\ outcome = invocations[n]
        /\ Len(sleeps) = n - 1
        /\ outcome.error.cls # "DorisConnectionError"

\* a non-retryable store error at the last permitted attempt, after sleeps
C3_Witness ==
    /\ pc = "done"
    /\ Len(invocations) = config.max_retries + 1
    /\ Len(invocations) >= 2
    /\ outcome.kind = "raise"
    /\ outcome.error.cls = "OperationalError"
    /\ outcome.error.code = 1064

(***************************************************************************)
(* SCHEMA COMPATIBILITY                                                    *)
(***************************************************************************)
MaxKeyFields == 2
MaxValueFields == 2

\* FieldSchema: name, value_type.type (the declared type; a vector's
\* dimension is part of it) and value_type.nullable.
FieldSchema(name, type, nullable) ==
    [name |-> name, type |-> type, nullable |-> nullable]

KeyFieldSchemas ==
    [name : {"id", "doc_id"}, type : {"Int64", "Str"}, nullable : {FALSE}]

ValueFieldOrder == <<"content", "extra", "embedding">>

ValueFieldSchemas ==
    [name : {"content"}, type : {"Str", "Int64"}, nullable : BOOLEAN]
        \cup {FieldSchema("extra", "Str", TRUE),
              FieldSchema("embedding", "Vector3", FALSE)}

Names(fields) == {fields[i].name : i \in DOMAIN fields}

DistinctNames(fields) ==
    \A i, j \in DOMAIN fields : fields[i].name = fields[j].name => i = j

SeqsUpTo(S, n) == UNION {[1..m -> S] : m \in 0..n}

\* key_fields_schema: never empty (get_setup_state raises otherwise),
\* names distinct; the second key field is an Int64 in the enumeration.
KeySchemas ==
    {ks \in SeqsUpTo(KeyFieldSchemas, MaxKeyFields) :
        /\ Len(ks) >= 1
        /\ DistinctNames(ks)
        /\ Len(ks) = 2 => ks[2].type = "Int64"}

Position(name) ==
    CHOOSE i \in DOMAIN ValueFieldOrder : ValueFieldOrder[i] = name

\* value_fields_schema: names distinct, enumerated in one column order.
ValueSchemas ==
    {vs \in SeqsUpTo(ValueFieldSchemas, MaxValueFields) :
        \A i, j \in DOMAIN vs :
            i < j => Position(vs[i].name) < Position(vs[j].name)}

\* _VectorIndex and _InvertedIndex as get_setup_state names them.
VectorIndex(index_type) ==
    [name |-> "idx_embedding_ann", field_name |-> "embedding",
     index_type |-> index_type, metric_type |-> "l2_distance", dimension |-> 3]

InvertedIndex ==
    [name |-> "idx_content_inv", field_name |-> "content", parser |-> "english"]

\* The <<vector_indexes, inverted_indexes>> pairs of a _State whose value
\* fields are vs.  get_setup_state keeps a vector index only for a field of
\* vs with a fixed dimension.  An absent list (None) is the empty sequence:
\* the connector reads both lists through "or []".
IndexOptions(vs) ==
    {<<(<<>>), (<<>>)>>, <<(<<>>), (<<InvertedIndex>>)>>}
        \cup (IF "embedding" \in Names(vs)
              THEN {<<(<<VectorIndex("hnsw")>>), (<<>>)>>,
                    <<(<<VectorIndex("ivf")>>), (<<>>)>>}
              ELSE {})

StatesOver(ks, vs) ==
    {[key_fields_schema |-> ks, value_fields_schema |-> vs,
      vector_indexes |-> ix[1], inverted_indexes |-> ix[2],
      schema_evolution |-> mode] :
        ix \in IndexOptions(vs), mode \in {"extend", "strict"}}

\* _State, as far as the schema is concerned.
States == UNION {StatesOver(ks, vs) : ks \in KeySchemas, vs \in ValueSchemas}

\* prev_fields = {f.name: f for f in previous.value_fields_schema}:
\* the last field of a name wins.
FieldsByName(fields, name) ==
    LET last == CHOOSE i \in DOMAIN fields :
                    /\ fields[i].name = name
                    /\ \A j \in DOMAIN fields : fields[j].name = name => j <= i
    IN  fields[last]

\* A mutation: the evolution mode is read from the previous state.
IsExtendModePrevious(prev, cur) == prev.schema_evolution = "extend"

\* is_extend_mode = current.schema_evolution == "extend"
IsExtendMode(prev, cur) == cur.schema_evolution = "extend"

\* A mutation: key fields compared by name only.
KeySchemaChangedByName(prev, cur) ==
    [i \in DOMAIN prev.key_fields_schema |-> prev.key_fields_schema[i].name]
        # [i \in DOMAIN cur.key_fields_schema |-> cur.key_fields_schema[i].name]

\* previous.key_fields_schema != current.key_fields_schema
KeySchemaChanged(prev, cur) == prev.key_fields_schema # cur.key_fields_schema

\* A mutation: the type check compares the nullability as well.
TypeChangedWithNullable(prev, cur) ==
    \E i \in DOMAIN cur.value_fields_schema :
        LET field == cur.value_fields_schema[i] IN
        /\ field.name \in Names(prev.value_fields_schema)
        /\ FieldsByName(prev.value_fields_schema, field.name) # field

\* The loop over current.value_fields_schema: some column of both schemas
\* has prev_fields[name].value_type.type != field.value_type.type.
TypeChanged(prev, cur) ==
    \E i \in DOMAIN cur.value_fields_schema :
        LET field == cur.value_fields_schema[i] IN
        /\ field.name \in Names(prev.value_fields_schema)
        /\ FieldsByName(prev.value_fields_schema, field.name).type # field.type

\* _Connector.check_state_compatibility
check_state_compatibility(prev, cur) ==
    IF KeySchemaChanged(prev, cur) THEN "NOT_COMPATIBLE"
    ELSE LET prev_field_names == Names(prev.value_fields_schema)
             curr_field_names == Names(cur.value_fields_schema)
             removed_columns == prev_field_names \ curr_field_names
         IN  IF removed_columns # {} /\ ~IsExtendMode(prev, cur)
             THEN "NOT_COMPATIBLE"
             ELSE IF TypeChanged(prev, cur) THEN "NOT_COMPATIBLE"
             ELSE "COMPATIBLE"

\* The orchestrator holds a previous and a current state.
InitCompat ==
    /\ previous \in States
    /\ current \in States
    /\ compat = "None"
    /\ RetryIdle
    /\ MutateIdle
    /\ SetupIdle

\* The orchestrator calls check_state_compatibility(previous, current).
CheckStateCompatibility ==
    /\ compat = "None"
    /\ compat' = check_state_compatibility(previous, current)
    /\ UNCHANGED <<previous, current>>
    /\ UNCHANGED <<retryVars, mutateVars, setupVars>>

NextCompat == CheckStateCompatibility

SpecCompat == InitCompat /\ [][NextCompat]_vars

(***************************************************************************)
(* Claims about check_state_compatibility (checked under SpecCompat)       *)
(***************************************************************************)

KeyNames(st) ==
    [i \in DOMAIN st.key_fields_schema |-> st.key_fields_schema[i].name]

KeyTypes(st) ==
    [i \in DOMAIN st.key_fields_schema |-> st.key_fields_schema[i].type]

\* the declared type of value column name in st
TypeOf(st, name) ==
    (CHOOSE f \in {st.value_fields_schema[i] : i \in DOMAIN st.value_fields_schema} :
        f.name = name).type

SharedColumns == Names(previous.value_fields_schema) \cap Names(current.value_fields_schema)

RemovedColumns == Names(previous.value_fields_schema) \ Names(current.value_fields_schema)

SharedKeepTypes == \A c \in SharedColumns : TypeOf(previous, c) = TypeOf(current, c)

\* C8: whenever the key fields of previous and current differ in names,
\* order or declared type, the result is NOT_COMPATIBLE, whatever the
\* modes, value fields and index sets.
C8_KeyChangeNotCompatible ==
    (compat # "None" /\ (KeyNames(previous) # KeyNames(current)
                        \/ KeyTypes(previous) # KeyTypes(current))) =>
        compat = "NOT_COMPATIBLE"

\* a key type change alone, extend mode on both sides, same value fields
C8_Witness ==
    /\ compat = "NOT_COMPATIBLE"
    /\ KeyNames(previous) = KeyNames(current)
    /\ KeyTypes(previous) # KeyTypes(current)
    /\ previous.schema_evolution = "extend"
    /\ current.schema_evolution = "extend"
    /\ previous.value_fields_schema = current.value_fields_schema

\* C9: with equal key fields, shared value columns keeping their types and
\* at least one value column of previous missing from current, the result
\* is NOT_COMPATIBLE when current's mode is strict and COMPATIBLE when it
\* is extend.
C9_ColumnRemovalByMode ==
    (compat # "None" /\ previous.key_fields_schema = current.key_fields_schema
                   /\ SharedKeepTypes /\ RemovedColumns # {}) =>
        compat = (IF current.schema_evolution = "strict"
                  THEN "NOT_COMPATIBLE" ELSE "COMPATIBLE")

\* a column removed under a strict current state coming from an extend one
C9_Witness ==
    /\ compat = "NOT_COMPATIBLE"
    /\ previous.key_fields_schema = current.key_fields_schema
    /\ SharedKeepTypes
    /\ RemovedColumns = {"extra"}
    /\ SharedColumns = {"content"}
    /\ current.schema_evolution = "strict"
    /\ previous.schema_evolution = "extend"

\* C10: the result is COMPATIBLE exactly when the key fields are equal, no
\* value column of previous is missing from current unless the mode is
\* extend, and no value column of both has a changed declared type.
C10_CompatibleExactlyWhen ==
    compat # "None" =>
        (compat = "COMPATIBLE" <=>
            /\ previous.key_fields_schema = current.key_fields_schema
            /\ (RemovedColumns = {} \/ current.schema_evolution = "extend")
            /\ SharedKeepTypes)

\* compatible although a column was added, a shared column changed its
\* nullability and the index sets differ
C10_Witness ==
    /\ compat = "COMPATIBLE"
    /\ Names(current.value_fields_schema) \ Names(previous.value_fields_schema) # {}
    /\ \E c \in SharedColumns :
         FieldsByName(previous.value_fields_schema, c).nullable
             # FieldsByName(current.value_fields_schema, c).nullable
    /\ previous.vector_indexes # current.vector_indexes
    /\ previous.inverted_indexes # current.inverted_indexes
    /\ current.schema_evolution = "strict"

(***************************************************************************)
(* MUTATION PIPELINE                                                       *)
(***************************************************************************)
MaxBatchSize == 2
MaxStoreRetries == 1
MaxMutations == 2
MaxPairs == 2
MaxCalls == 2
MaxFaults == 1

Tasks == {1, 2}
ContextIds == {"c1", "c2"}
TableNames == {"t1", "t2"}

\* Python values: the type and the content (an int as <<n>>, a str as its
\* code points, bytes as its bytes, a tuple as its items, a dict as a
\* function of its keys).
PyNone == [ty |-> "NoneType", v |-> <<>>]
PyInt(n) == [ty |-> "int", v |-> <<n>>]
PyStr(codepoints) == [ty |-> "str", v |-> codepoints]
PyBytes(bytes) == [ty |-> "bytes", v |-> bytes]
PyTuple(items) == [ty |-> "tuple", v |-> items]
PyDict(d) == [ty |-> "dict", v |-> d]

\* bytes.decode("utf-8", errors="replace") on bytes below 0x80 and the
\* bytes 0xFE, 0xFF (never valid in UTF-8): each invalid byte becomes U+FFFD.
Utf8DecodeReplace(bytes) ==
    [i \in DOMAIN bytes |-> IF bytes[i] < 128 THEN bytes[i] ELSE 65533]

\* _convert_value_for_doris, for None, list/tuple, bytes and the values
\* returned as they are (int, str); UUID, NaN, dict and dates are not drawn.
RECURSIVE ConvertItems(_)
ConvertValueForDoris(value) ==
    CASE value.ty = "NoneType" -> PyNone
      [] value.ty \in {"list", "tuple"} ->
            [ty |-> "list", v |-> ConvertItems(value.v)]
      [] value.ty = "bytes" -> PyStr(Utf8DecodeReplace(value.v))
      [] OTHER -> value

ConvertItems(items) ==
    IF items = <<>> THEN <<>>
    ELSE <<ConvertValueForDoris(Head(items))>> \o ConvertItems(Tail(items))

\* The _State of the prepared contexts: a scalar Int64 key, a scalar Bytes
\* key, or a composite (Int64, Str) key; one value field.
MutateStates ==
    {[key_fields_schema |-> ks,
      value_fields_schema |-> <<FieldSchema("content", "Str", TRUE)>>] :
        ks \in {<<FieldSchema("id", "Int64", FALSE)>>,
                <<FieldSchema("id", "Bytes", FALSE)>>,
                <<FieldSchema("tenant_id", "Int64", FALSE),
                  FieldSchema("doc_id", "Str", FALSE)>>}}

\* The row keys the engine hands to mutate for a key schema: a scalar for
\* one key field, a tuple for several.
PyKeys(ks) ==
    IF Len(ks) > 1
    THEN <<PyTuple(<<PyInt(1), PyStr(<<97>>)>>),
           PyTuple(<<PyInt(1), PyStr(<<98>>)>>)>>
    ELSE IF ks[1].type = "Bytes"
    THEN <<PyBytes(<<254>>), PyBytes(<<255>>)>>
    ELSE <<PyInt(1), PyInt(2)>>

Range(f) == {f[i] : i \in DOMAIN f}

\* The value of a mutation: a dict of value fields, or None (delete).
PyValues == {PyDict([content |-> PyStr(<<65>>)]),
             PyDict([content |-> PyStr(<<66>>)]),
             PyNone}

\* mutations: dict[key, value | None] of up to n entries; the batches are
\* enumerated with their keys in the order of keys.
RECURSIVE MutationBatches(_, _)
MutationBatches(keys, n) ==
    IF n = 0 \/ keys = <<>> THEN {<<>>}
    ELSE MutationBatches(Tail(keys), n)
            \cup {<<[key |-> Head(keys), value |-> v]>> \o rest :
                    v \in PyValues, rest \in MutationBatches(Tail(keys), n - 1)}

FieldNames(fields) == [i \in DOMAIN fields |-> fields[i].name]

\* key_dict of mutate: zip(key_field_names, key) for a tuple key, else the
\* first key field.
KeyDict(key_field_names, key) ==
    IF key.ty = "tuple"
    THEN LET n == Min(Len(key_field_names), Len(key.v))
         IN  [name \in {key_field_names[i] : i \in 1..n} |->
                ConvertValueForDoris(
                    key.v[CHOOSE i \in 1..n : key_field_names[i] = name])]
    ELSE [name \in {key_field_names[1]} |-> ConvertValueForDoris(key)]

\* row = {**key_dict} plus every value field present in value
Row(state, mutation) ==
    LET names == FieldNames(state.value_fields_schema)
        present == {names[i] : i \in DOMAIN names} \cap DOMAIN mutation.value.v
        key_dict == KeyDict(FieldNames(state.key_fields_schema), mutation.key)
    IN  [name \in present |-> ConvertValueForDoris(mutation.value.v[name])]
            @@ key_dict

IsUpsert(mutation) == mutation.value.ty # "NoneType"
IsDelete(mutation) == mutation.value.ty = "NoneType"

\* the list upserts built by the first loop of mutate
Upserts(state, mutations) ==
    LET ups == SelectSeq(mutations, IsUpsert)
    IN  [j \in DOMAIN ups |-> Row(state, ups[j])]

\* the list deletes built by the first loop of mutate
Deletes(state, mutations) ==
    LET dels == SelectSeq(mutations, IsDelete)
    IN  [j \in DOMAIN dels |->
            KeyDict(FieldNames(state.key_fields_schema), dels[j].key)]

\* upsert_keys = [{name: row[name] for name in key_field_names} ...]
UpsertKeys(state, upserts) ==
    LET names == FieldNames(state.key_fields_schema)
    IN  [j \in DOMAIN upserts |->
            [name \in {names[i] : i \in DOMAIN names} |-> upserts[j][name]]]

\* A mutation of the slice: it runs to the end of the list.
ChunkToEnd(list, i, batch_size) == SubSeq(list, i + 1, Len(list))

\* list[i : i + batch_size]
Chunk(list, i, batch_size) ==
    SubSeq(list, i + 1, Min(i + batch_size, Len(list)))

(***************************************************************************)
(* The table store: a DUPLICATE KEY table keeps every loaded row.          *)
(***************************************************************************)
EmptyBag == <<>>

BagAdd(bag, row) ==
    IF row \in DOMAIN bag THEN [bag EXCEPT ![row] = @ + 1]
    ELSE bag @@ (row :> 1)

\* the bag without the rows in gone
BagRemove(bag, gone) == [row \in DOMAIN bag \ gone |-> bag[row]]

Columns(state) ==
    {state.key_fields_schema[i].name : i \in DOMAIN state.key_fields_schema}
        \cup {state.value_fields_schema[i].name :
                i \in DOMAIN state.value_fields_schema}

\* Stream Load: a column a row does not carry is loaded as NULL.
StoredRow(state, row) ==
    [col \in Columns(state) |-> IF col \in DOMAIN row THEN row[col] ELSE PyNone]

RECURSIVE StreamLoaded(_, _, _)
StreamLoaded(state, bag, rows) ==
    IF rows = <<>> THEN bag
    ELSE StreamLoaded(state, BagAdd(bag, StoredRow(state, Head(rows))), Tail(rows))

\* DELETE FROM t WHERE `field` IN (params)
DeletedIn(bag, field_name, key_values) ==
    LET params == {key_values[j][field_name] : j \in DOMAIN key_values}
        Gone(r) == r[field_name] \in params
    IN  BagRemove(bag, {r \in DOMAIN bag : Gone(r)})

\* DELETE FROM t WHERE `k1` = %s AND `k2` = %s ...; a key field the key
\* dict lacks is bound to NULL, which equals nothing.
\* A mutation of the statement: its WHERE names the first key field only.
DeletedWhereFirst(bag, key_field_names, key_value) ==
    BagRemove(bag, {r \in DOMAIN bag :
                       r[key_field_names[1]] = key_value[key_field_names[1]]})

DeletedWhere(bag, key_field_names, key_value) ==
    LET Gone(r) == \A i \in DOMAIN key_field_names :
                      /\ key_field_names[i] \in DOMAIN key_value
                      /\ r[key_field_names[i]] = key_value[key_field_names[i]]
    IN  BagRemove(bag, {r \in DOMAIN bag : Gone(r)})

(***************************************************************************)
(* prepare and mutate                                                      *)
(***************************************************************************)

\* A task before its first call of mutate.
IdleCall ==
    [pc |-> "idle",        \* idle, lock, predelete, load, tombstone,
                           \* returned, raised
     pairs |-> <<>>,       \* all_mutations: (context, mutations) pairs
     p |-> 0,              \* index of the pair the for loop is at
     upserts |-> <<>>, deletes |-> <<>>,
     i |-> 0,              \* loop variable of the chunk loop
     attempt |-> 0,        \* loop variable of with_retry around the operation
     pos |-> 0,            \* composite delete: row-deletes done on the connection
     committed |-> FALSE,  \* the label of the current Stream Load is used up
     error |-> None,       \* the exception mutate raised
     \* bookkeeping
     callno |-> 0,         \* which call of the run this is
     alone |-> TRUE,       \* no other call ran during this one
     pre |-> <<>>,         \* the tables when the call started
     touched |-> {},       \* pairs for which a store operation was invoked
     chunks |-> <<>>,      \* the batches handed to _execute_delete and
                           \* _stream_load, in the order of the calls
     redone |-> 0,         \* row-deletes that were done on a connection
                           \* that failed and are done again by the retry
     processed |-> {},     \* pairs whose loop body has ended
     failed_at |-> 0,      \* the pair in which a store operation raised
     failed_in |-> ""]     \* the step in which it raised

Active(c) == c.pc \in {"lock", "predelete", "load", "tombstone"}

Running(c) == c.pc \in {"predelete", "load", "tombstone"}

ContextOf(c) == c.pairs[c.p].context

RetryConfigOf(target) ==
    [max_retries |-> target.max_retries, base_delay |-> 1, max_delay |-> 30,
     exponential_base |-> 2]

RECURSIVE NextPair(_, _, _), EnterLock(_, _, _), AfterUpserts(_, _, _), Leave(_, _, _)

\* A mutation of the loop head: the body is entered without the lock.
NextPairUnlocked(t, c, ctxs) ==
    IF c.p > Len(c.pairs)
    THEN [call |-> [c EXCEPT !.pc = "returned"], ctxs |-> ctxs]
    ELSE LET pair == c.pairs[c.p]
             c1 == [c EXCEPT !.upserts = Upserts(setup_state, pair.mutations),
                             !.deletes = Deletes(setup_state, pair.mutations),
                             !.i = 0, !.attempt = 0, !.pos = 0,
                             !.committed = FALSE]
         IN  EnterLock(t, c1, ctxs)

\* Head of "for context, mutations in all_mutations": behind the last pair
\* mutate returns; else the two lists are built and the lock is requested.
\* asyncio.Lock.acquire takes a free lock that has no waiter at once, and
\* queues the task otherwise.
NextPair(t, c, ctxs) ==
    IF c.p > Len(c.pairs)
    THEN [call |-> [c EXCEPT !.pc = "returned"], ctxs |-> ctxs]
    ELSE LET pair == c.pairs[c.p]
             c1 == [c EXCEPT !.upserts = Upserts(setup_state, pair.mutations),
                             !.deletes = Deletes(setup_state, pair.mutations),
                             !.i = 0, !.attempt = 0, !.pos = 0,
                             !.committed = FALSE]
             cx == ctxs[pair.context]
         IN  IF cx.lock = 0 /\ cx.waiters = <<>>
             THEN EnterLock(t, c1, [ctxs EXCEPT ![pair.context].lock = t])
             ELSE [call |-> [c1 EXCEPT !.pc = "lock"],
                   ctxs |-> [ctxs EXCEPT ![pair.context].waiters = Append(@, t)]]

\* Top of the "async with context.lock" body.
EnterLock(t, c, ctxs) ==
    IF c.upserts # <<>>
    THEN [call |-> [c EXCEPT !.pc = "predelete"], ctxs |-> ctxs]
    ELSE AfterUpserts(t, c, ctxs)

\* A mutation of the body: the explicit deletes are left out.
AfterUpsertsOnly(t, c, ctxs) == Leave(t, c, ctxs)

\* Behind "if upserts:": the loop over the explicit deletes.
AfterUpserts(t, c, ctxs) ==
    IF c.deletes # <<>>
    THEN [call |-> [c EXCEPT !.pc = "tombstone", !.i = 0, !.attempt = 0,
                             !.pos = 0],
          ctxs |-> ctxs]
    ELSE Leave(t, c, ctxs)

\* End of the "async with" body: the lock is released, the for loop goes on.
Leave(t, c, ctxs) ==
    NextPair(t,
             [c EXCEPT !.processed = @ \cup {c.p}, !.p = @ + 1],
             [ctxs EXCEPT ![ContextOf(c)].lock =
                             IF @ = t THEN 0 ELSE @])

\* A mutation of the exception path: the error is dropped and the for loop
\* goes on with the next pair.
RaisedSwallowed(t, c, ctxs, err) ==
    Leave(t, [c EXCEPT !.failed_at = c.p, !.failed_in = c.pc], ctxs)

\* An exception leaves the "async with" body (the lock is released) and
\* mutate.
RaisedFrom(t, c, ctxs, err) ==
    [call |-> [c EXCEPT !.pc = "raised", !.error = err,
                        !.processed = @ \cup {c.p}, !.failed_at = c.p,
                        !.failed_in = c.pc],
     ctxs |-> [ctxs EXCEPT ![ContextOf(c)].lock = IF @ = t THEN 0 ELSE @]]

\* The chunk loop "for i in range(0, len(list), batch_size)" after a chunk:
\* the next chunk, or what follows the loop.
AfterChunk(t, c, ctxs, list) ==
    LET c1 == [c EXCEPT !.i = @ + spec.batch_size, !.attempt = 0, !.pos = 0,
                        !.committed = FALSE]
    IN  IF c1.i < Len(list) THEN [call |-> c1, ctxs |-> ctxs]
        ELSE IF c.pc = "predelete"
        THEN [call |-> [c1 EXCEPT !.pc = "load", !.i = 0], ctxs |-> ctxs]
        ELSE IF c.pc = "load" THEN AfterUpserts(t, c1, ctxs)
        ELSE Leave(t, c1, ctxs)

\* with_retry after a retryable failure of the operation: the next attempt
\* (sleep included), or DorisConnectionError behind the loop.
AfterRetryable(t, c, ctxs, err) ==
    IF InRange(RetryConfigOf(spec), c.attempt + 1)
    THEN [call |-> [c EXCEPT !.attempt = @ + 1, !.pos = 0,
                             !.redone = @ + c.pos],
          ctxs |-> ctxs]
    ELSE RaisedFrom(t, c, ctxs,
                    DorisConnectionError(RetryConfigOf(spec), err).error)

\* with_retry after any failure of the operation.
AfterFailure(t, c, ctxs, err) ==
    IF IsRetryable(err, TRUE) THEN AfterRetryable(t, c, ctxs, err)
    ELSE RaisedFrom(t, c, ctxs, err)

\* The step of task t takes effect; fault is 1 when the store failed in it.
Commit(t, step, fault) ==
    /\ calls' = [calls EXCEPT ![t] = step.call]
    /\ contexts' = step.ctxs
    /\ history' = [history EXCEPT !.faults = @ + fault,
                                  !.raised = @ \/ step.call.pc = "raised"]

\* prepare(spec, setup_state): a context with a session and a fresh lock.
Prepare(ctx, tbl) ==
    /\ contexts[ctx].table = "None"
    /\ history.ncalls = 0
    /\ contexts' = [contexts EXCEPT ![ctx] =
                        [table |-> tbl, lock |-> 0, waiters |-> <<>>]]
    /\ UNCHANGED <<spec, setup_state, table, calls, history>>
    /\ UNCHANGED <<retryVars, compatVars, setupVars>>

Prepared == {ctx \in ContextIds : contexts[ctx].table # "None"}

Pairs(ctxs, batches) == [context : ctxs, mutations : batches]

\* The argument lists drawn for mutate: no pair, one pair with a batch of
\* up to MaxMutations entries, or up to MaxPairs pairs that each upsert or
\* delete the first key.
AllMutations ==
    LET keys == PyKeys(setup_state.key_fields_schema)
        one == Pairs(Prepared, MutationBatches(keys, MaxMutations))
        few == Pairs(Prepared,
                     {<<[key |-> keys[1], value |-> v]>> :
                         v \in {PyDict([content |-> PyStr(<<65>>)]), PyNone}})
    IN  {<<>>} \cup {<<pair>> : pair \in one}
               \cup UNION {[1..n -> few] : n \in 2..MaxPairs}

\* What the calls so far were to leave per table and key: the last value
\* written, None after a delete, "unset" for a key never mutated.
Unset == [ty |-> "unset", v |-> <<>>]

RECURSIVE LastAfter(_, _, _)
LastAfter(last, ctxs, pairs) ==
    IF pairs = <<>> THEN last
    ELSE LET pair == Head(pairs)
             tbl == ctxs[pair.context].table
             m == pair.mutations
             written == [k \in {m[j].key : j \in DOMAIN m} |->
                            (CHOOSE j \in DOMAIN m : m[j].key = k)]
         IN  LastAfter([last EXCEPT ![tbl] =
                            [k \in DOMAIN @ |->
                                IF k \in DOMAIN written
                                THEN m[written[k]].value ELSE @[k]]],
                       ctxs, Tail(pairs))

\* mutate(*all_mutations) is called; it runs up to its first await.
Mutate(t, all_mutations) ==
    /\ ~Active(calls[t])
    /\ history.ncalls < MaxCalls
    /\ LET others == {u \in Tasks \ {t} : Active(calls[u])}
           c == [IdleCall EXCEPT !.pairs = all_mutations, !.p = 1,
                                 !.callno = history.ncalls + 1,
                                 !.alone = (others = {}),
                                 !.pre = table]
           step == NextPair(t, c, contexts)
       IN  /\ calls' = [u \in Tasks |->
                          IF u = t THEN step.call
                          ELSE IF u \in others
                          THEN [calls[u] EXCEPT !.alone = FALSE]
                          ELSE calls[u]]
           /\ contexts' = step.ctxs
           /\ history' = [history EXCEPT
                            !.ncalls = @ + 1,
                            !.overlap = @ \/ others # {},
                            !.last = LastAfter(@, contexts, all_mutations)]
    /\ UNCHANGED <<spec, setup_state, table>>
    /\ UNCHANGED <<retryVars, compatVars, setupVars>>

\* The lock is free and the task is the first waiter: it enters the body.
AcquireLock(t) ==
    LET c == calls[t] IN
    /\ c.pc = "lock"
    /\ contexts[ContextOf(c)].lock = 0
    /\ Head(contexts[ContextOf(c)].waiters) = t
    /\ Commit(t, EnterLock(t, c,
                 [contexts EXCEPT ![ContextOf(c)].lock = t,
                                  ![ContextOf(c)].waiters = Tail(@)]), 0)
    /\ UNCHANGED <<spec, setup_state, table>>
    /\ UNCHANGED <<retryVars, compatVars, setupVars>>

\* The call of _execute_delete or _stream_load the task is in, with its
\* batch, is noted when its first attempt begins.
Handed(c, batch) ==
    [c EXCEPT !.touched = @ \cup {c.p},
              !.chunks = IF c.attempt = 0 /\ c.pos = 0 /\ ~c.committed
                         THEN Append(@, [step |-> c.pc, pair |-> c.p,
                                         batch |-> batch])
                         ELSE @]

\* Errors drawn for a failing SQL DELETE: a lost connection (retryable)
\* and a syntax error (not retryable).
DeleteErrors == {[cls |-> "OperationalError", code |-> 2013],
                 [cls |-> "OperationalError", code |-> 1064]}

\* One await of _execute_delete(spec, key_field_names, batch) for the
\* current chunk of list, under with_retry: the IN statement of a
\* single-column key, or the next row-delete of a composite key.  A failing
\* statement may have been executed by the server before the error.
ExecuteDelete(t, list) ==
    LET c == calls[t]
        tbl == contexts[ContextOf(c)].table
        key_field_names == FieldNames(setup_state.key_fields_schema)
        batch == Chunk(list, c.i, spec.batch_size)
        is_composite_key == Len(key_field_names) > 1
        c0 == Handed(c, batch)
        after == IF is_composite_key
                 THEN DeletedWhere(table[tbl], key_field_names, batch[c.pos + 1])
                 ELSE DeletedIn(table[tbl], key_field_names[1], batch)
        finished == ~is_composite_key \/ c.pos + 1 = Len(batch)
    IN  \/ /\ table' = [table EXCEPT ![tbl] = after]
           /\ Commit(t, IF finished THEN AfterChunk(t, c0, contexts, list)
                        ELSE [call |-> [c0 EXCEPT !.pos = @ + 1],
                              ctxs |-> contexts], 0)
        \/ /\ history.faults < MaxFaults
           /\ \E err \in DeleteErrors, executed \in BOOLEAN :
                /\ table' = IF executed THEN [table EXCEPT ![tbl] = after]
                            ELSE table
                /\ Commit(t, AfterFailure(t, c0, contexts, err), 1)

\* "Delete existing rows first": _execute_delete on a chunk of upsert_keys.
PreDelete(t) ==
    /\ calls[t].pc = "predelete"
    /\ ExecuteDelete(t, UpsertKeys(setup_state, calls[t].upserts))
    /\ UNCHANGED <<spec, setup_state>>
    /\ UNCHANGED <<retryVars, compatVars, setupVars>>

\* "Process explicit deletes": _execute_delete on a chunk of deletes.
TombstoneDelete(t) ==
    /\ calls[t].pc = "tombstone"
    /\ ExecuteDelete(t, calls[t].deletes)
    /\ UNCHANGED <<spec, setup_state>>
    /\ UNCHANGED <<retryVars, compatVars, setupVars>>

StreamLoadError == [cls |-> "DorisStreamLoadError", code |-> 0]

\* One invocation of do_stream_load for the current chunk of upserts, under
\* with_retry.  The label is generated once per _stream_load call: once a
\* request with it was committed, the store answers "Label Already Exists";
\* a Status other than Success / Publish Timeout raises
\* DorisStreamLoadError, a transport error may come after the commit.
StreamLoad(t) ==
    LET c == calls[t]
        tbl == contexts[ContextOf(c)].table
        batch == Chunk(c.upserts, c.i, spec.batch_size)
        c0 == Handed(c, batch)
        loaded == [table EXCEPT ![tbl] = StreamLoaded(setup_state, @, batch)]
    IN
    /\ c.pc = "load"
    /\ \/ /\ ~c.committed
          /\ table' = loaded
          /\ Commit(t, AfterChunk(t, c0, contexts, c.upserts), 0)
       \/ /\ c.committed
          /\ table' = table
          /\ Commit(t, AfterFailure(t, c0, contexts, StreamLoadError), 0)
       \/ /\ history.faults < MaxFaults
          /\ ~c.committed
          /\ table' = table
          /\ Commit(t, AfterFailure(t, c0, contexts, StreamLoadError), 1)
       \/ /\ history.faults < MaxFaults
          /\ \E committed \in BOOLEAN :
               /\ committed => ~c.committed
               /\ table' = IF committed THEN loaded ELSE table
               /\ Commit(t, AfterFailure(t,
                                [c0 EXCEPT !.committed = @ \/ committed],
                                contexts,
                                [cls |-> "TimeoutError", code |-> 0]), 1)
    /\ UNCHANGED <<spec, setup_state>>
    /\ UNCHANGED <<retryVars, compatVars, setupVars>>

InitMutate ==
    /\ spec \in [batch_size : 1..MaxBatchSize, max_retries : 0..MaxStoreRetries]
    /\ setup_state \in MutateStates
    /\ contexts = [ctx \in ContextIds |->
                     [table |-> "None", lock |-> 0, waiters |-> <<>>]]
    /\ table = [tbl \in TableNames |-> EmptyBag]
    /\ calls = [t \in Tasks |-> IdleCall]
    /\ history = [ncalls |-> 0, faults |-> 0, overlap |-> FALSE,
                  raised |-> FALSE,
                  last |-> [tbl \in TableNames |->
                              [k \in Range(PyKeys(setup_state.key_fields_schema)) |-> Unset]]]
    /\ RetryIdle
    /\ CompatIdle
    /\ SetupIdle

\* One task calls mutate, one call after the other; each context has its
\* own table.
OwnTable(ctx) == IF ctx = "c1" THEN "t1" ELSE "t2"

NextMutate ==
    \/ \E ctx \in ContextIds : Prepare(ctx, OwnTable(ctx))
    \/ \E all_mutations \in AllMutations : Mutate(1, all_mutations)
    \/ PreDelete(1)
    \/ StreamLoad(1)
    \/ TombstoneDelete(1)

SpecMutate == InitMutate /\ [][NextMutate]_vars

(***************************************************************************)
(* Claims about mutate, one call after the other (SpecMutate)              *)
(***************************************************************************)

\* number of rows of a table whose key columns equal key_dict
RECURSIVE Sum(_, _)
Sum(f, S) ==
    IF S = {} THEN 0
    ELSE LET x == CHOOSE x \in S : TRUE IN f[x] + Sum(f, S \ {x})

HasKey(row, key_dict) == \A name \in DOMAIN key_dict : row[name] = key_dict[name]

RowsWithKey(bag, key_dict) == {r \in DOMAIN bag : HasKey(r, key_dict)}

CountWithKey(bag, key_dict) == Sum(bag, RowsWithKey(bag, key_dict))

StoreKey(key) == KeyDict(FieldNames(setup_state.key_fields_schema), key)

\* the table holds exactly one row for key, carrying value
ExactlyOneRow(bag, key, value) ==
    /\ CountWithKey(bag, StoreKey(key)) = 1
    /\ StoredRow(setup_state, Row(setup_state, [key |-> key, value |-> value]))
          \in DOMAIN bag

NoRow(bag, key) == CountWithKey(bag, StoreKey(key)) = 0

AllReturned ==
    /\ history.ncalls >= 1
    /\ ~history.raised
    /\ ~history.overlap
    /\ \A t \in Tasks : ~Active(calls[t])

LastWritten(tbl, key) == history.last[tbl][key]

\* C4: after mutate calls executed one after another, each completed
\* without error, every table holds for every key exactly one row with the
\* last-written value if the key's last mutation was an upsert, and no row
\* if it was a delete.
C4_IdempotentUpsert ==
    AllReturned =>
        \A tbl \in TableNames :
            \A key \in Range(PyKeys(setup_state.key_fields_schema)) :
                /\ LastWritten(tbl, key).ty = "dict" =>
                      ExactlyOneRow(table[tbl], key, LastWritten(tbl, key))
                /\ LastWritten(tbl, key).ty = "NoneType" =>
                      NoRow(table[tbl], key)

\* The same, for the key schemas whose keys keep distinct store values
\* (Int64 and composite keys).
IdempotentUpsertOfDistinctKeys ==
    setup_state.key_fields_schema[1].type # "Bytes" => C4_IdempotentUpsert

OnePairCallReturned(c) ==
    /\ c.pc = "returned"
    /\ Len(c.pairs) = 1
    /\ c.alone

\* C6: after one mutate call on one batch has completed without error, each
\* key mapped to a value has exactly one row with that value, each key
\* mapped to None has no row, and the rows of keys outside the batch (and
\* the other tables) are as before the call.
C6_BatchEffect ==
    \A t \in Tasks :
        LET c == calls[t] IN
        OnePairCallReturned(c) =>
            LET m == c.pairs[1].mutations
                tbl == contexts[c.pairs[1].context].table
                batch_keys == {StoreKey(m[j].key) : j \in DOMAIN m}
                Outside(r) == \A kd \in batch_keys : ~HasKey(r, kd)
            IN  /\ \A j \in DOMAIN m :
                      IF IsUpsert(m[j])
                      THEN ExactlyOneRow(table[tbl], m[j].key, m[j].value)
                      ELSE NoRow(table[tbl], m[j].key)
                /\ \A r \in DOMAIN table[tbl] \cup DOMAIN c.pre[tbl] :
                      Outside(r) =>
                          /\ r \in DOMAIN table[tbl]
                          /\ r \in DOMAIN c.pre[tbl]
                          /\ table[tbl][r] = c.pre[tbl][r]
                /\ \A other \in TableNames \ {tbl} : table[other] = c.pre[other]

BatchEffectOfDistinctKeys ==
    setup_state.key_fields_schema[1].type # "Bytes" => C6_BatchEffect

Ended(c) == c.pc \in {"returned", "raised"}

\* C7 as stated: the pairs of one call are processed independently, so an
\* error raised while processing one pair does not keep the remaining
\* pairs from being applied: when the call is over, every pair was processed.
C7_Original ==
    \A t \in Tasks :
        Ended(calls[t]) => calls[t].processed = 1..Len(calls[t].pairs)

\* the tables of the pairs 1..n of a call
TablesOf(c, n) == {contexts[c.pairs[j].context].table : j \in 1..n}

\* C7 amended: the pairs are processed one after the other in argument
\* order; a call that returns has processed every pair; an error raised
\* while processing a pair ends the call at once: no store operation is
\* invoked for any later pair and their tables stay as they were; with
\* zero pairs no store operation is performed.
C7_PairsInOrder ==
    \A t \in Tasks :
        LET c == calls[t] IN
        /\ c.touched \subseteq 1..c.p
        /\ c.processed \subseteq 1..c.p
        /\ c.failed_at # 0 => c.pc = "raised" /\ c.failed_at = c.p
        /\ c.pc = "returned" =>
              c.processed = 1..Len(c.pairs) /\ c.failed_at = 0
        /\ c.pc = "raised" =>
              /\ c.processed = 1..c.p
              /\ c.failed_at = c.p
              /\ c.alone =>
                    \A tbl \in TableNames \ TablesOf(c, c.p) :
                        table[tbl] = c.pre[tbl]
        /\ (c.callno > 0 /\ c.pairs = <<>>) =>
              /\ c.pc = "returned"
              /\ c.touched = {}
              /\ c.alone => table = c.pre

\* a call of two pairs on two contexts that raised in the first pair
C7_Witness ==
    \E t \in Tasks :
        LET c == calls[t] IN
        /\ c.pc = "raised"
        /\ Len(c.pairs) = 2
        /\ c.p = 1
        /\ c.pairs[1].context # c.pairs[2].context
        /\ IsUpsert(c.pairs[2].mutations[1])
        /\ table[contexts[c.pairs[2].context].table] = EmptyBag

(***************************************************************************)
(* Concurrent mutate calls (SpecConcurrent)                                *)
(***************************************************************************)

\* The argument lists drawn for concurrent calls: up to MaxPairs pairs that
\* each upsert or delete the first key.
ConcurrentMutations ==
    LET keys == PyKeys(setup_state.key_fields_schema)
        few == Pairs(Prepared,
                     {<<[key |-> keys[1], value |-> v]>> :
                         v \in {PyDict([content |-> PyStr(<<65>>)]), PyNone}})
    IN  UNION {[1..n -> few] : n \in 1..MaxPairs}

\* The tasks of one event loop call mutate and take their steps in any order.
NextConcurrent ==
    \/ \E ctx \in ContextIds : Prepare(ctx, OwnTable(ctx))
    \/ \E t \in Tasks, all_mutations \in ConcurrentMutations :
           Mutate(t, all_mutations)
    \/ \E t \in Tasks : AcquireLock(t)
    \/ \E t \in Tasks : PreDelete(t)
    \/ \E t \in Tasks : StreamLoad(t)
    \/ \E t \in Tasks : TombstoneDelete(t)

\* Every batch drawn has one entry, so one batch_size stands for all.
InitConcurrent ==
    /\ InitMutate
    /\ spec.batch_size = 1

SpecConcurrent == InitConcurrent /\ [][NextConcurrent]_vars

\* task t is in the delete/load/delete sequence of a pair on context ctx
InSequence(t, ctx) == Running(calls[t]) /\ ContextOf(calls[t]) = ctx

\* C5: a call that is at a store operation of a context (pre-delete, bulk
\* load, tombstone delete) holds the lock of that context, and no two calls
\* are inside the operation sequence of the same context at a time.
C5_LockSerializes ==
    \A ctx \in ContextIds :
        \A t \in Tasks :
            InSequence(t, ctx) =>
                /\ contexts[ctx].lock = t
                /\ \A u \in Tasks \ {t} : ~InSequence(u, ctx)

\* one call is in the middle of its sequence on a context (it has invoked
\* a store operation) while the other one waits for the lock of the context
C5_Witness ==
    \E t \in Tasks, u \in Tasks :
        /\ t # u
        /\ Running(calls[t])
        /\ calls[t].p \in calls[t].touched
        /\ calls[u].pc = "lock"
        /\ ContextOf(calls[u]) = ContextOf(calls[t])

\* the upsert of position j of the call is loaded / has no row
LoadedAt(c, tbl, j) ==
    /\ CountWithKey(table[tbl], UpsertKeys(setup_state, c.upserts)[j]) = 1
    /\ StoredRow(setup_state, c.upserts[j]) \in DOMAIN table[tbl]

AbsentAt(c, tbl, j) ==
    CountWithKey(table[tbl], UpsertKeys(setup_state, c.upserts)[j]) = 0

\* C20: when a bulk load of mutate fails after the pre-deletes of the
\* upsert keys, the error leaves mutate; the keys of the chunks that were
\* not loaded have no row in the table (neither the old nor the new one),
\* and the chunks loaded before the failure are still loaded.
C20_LoadFailure ==
    \A t \in Tasks :
        LET c == calls[t] IN
        c.failed_in = "load" =>
            /\ c.pc = "raised"
            /\ c.error # None
            /\ LET tbl == contexts[c.pairs[c.failed_at].context].table
                   done == IF c.committed THEN c.i + spec.batch_size ELSE c.i
               IN  \A j \in DOMAIN c.upserts :
                      IF j <= done THEN LoadedAt(c, tbl, j)
                      ELSE AbsentAt(c, tbl, j)

\* The same, for the key schemas whose keys keep distinct store values.
LoadFailureOfDistinctKeys ==
    setup_state.key_fields_schema[1].type # "Bytes" => C20_LoadFailure

(***************************************************************************)
(* apply_setup_change: the setup reconciler and the index synchronizer     *)
(***************************************************************************)
MaxDdlFaults == 1
MaxFastPolls == 1
MaxApplies == 2

\* DorisTarget.schema_change_timeout and index_build_timeout when the
\* constructor is not given them, and the poll intervals of the two waits.
DefaultSchemaChangeTimeout == 60
DefaultIndexBuildTimeout == 300
SchemaChangePollInterval == 1
IndexBuildPollInterval == 2

\* Python's None where the other values are strings or numbers.
NoType == ""
NoDimension == 0
NoLength == 0

\* _DORIS_TYPE_MAPPING and the Vector case of
\* _convert_value_type_to_doris_type; "Vector3" is a vector of dimension 3,
\* "Vector" one without a fixed dimension.
ConvertValueTypeToDorisType(type) ==
    CASE type = "Vector3" -> "ARRAY<FLOAT>"
      [] type = "Vector" -> "JSON"
      [] type = "Str" -> "TEXT"
      [] type = "Bytes" -> "STRING"
      [] type = "Int64" -> "BIGINT"
      [] OTHER -> "JSON"

IsVectorKind(type) == type \in {"Vector3", "Vector"}

ExtractVectorDimension(type) == IF type = "Vector3" THEN 3 ELSE NoDimension

ConvertToKeyColumnType(doris_type) ==
    IF doris_type \in {"TEXT", "STRING"} THEN "VARCHAR(512)" ELSE doris_type

\* The type strings of the model, as the DDL writes them and as DESCRIBE
\* reports them (in lower case).
Lower(t) ==
    CASE t = "ARRAY<FLOAT>" -> "array<float>"
      [] t = "ARRAY<FLOAT>(4)" -> "array<float>(4)"
      [] t = "TEXT" -> "text"
      [] t = "STRING" -> "string"
      [] t = "BIGINT" -> "bigint"
      [] t = "INT" -> "int"
      [] t = "JSON" -> "json"
      [] t = "VARCHAR(512)" -> "varchar(512)"
      [] t = "VARCHAR(36)" -> "varchar(36)"
      [] OTHER -> t

\* str.upper()
Upper(t) ==
    CASE t = "array<float>" -> "ARRAY<FLOAT>"
      [] t = "array<float>(4)" -> "ARRAY<FLOAT>(4)"
      [] t = "text" -> "TEXT"
      [] t = "string" -> "STRING"
      [] t = "bigint" -> "BIGINT"
      [] t = "int" -> "INT"
      [] t = "json" -> "JSON"
      [] t = "varchar(512)" -> "VARCHAR(512)"
      [] t = "varchar(36)" -> "VARCHAR(36)"
      [] OTHER -> t

\* type_upper.startswith(prefix), for an upper-case type string
StartsWith(type_upper, prefix) ==
    CASE prefix = "ARRAY" -> type_upper \in {"ARRAY<FLOAT>", "ARRAY<FLOAT>(4)"}
      [] prefix = "VARCHAR" -> type_upper \in {"VARCHAR(512)", "VARCHAR(36)"}
      [] prefix = "TEXT" -> type_upper = "TEXT"
      [] prefix = "STRING" -> type_upper = "STRING"
      [] OTHER -> FALSE

ExtractArrayElementType(type_str) ==
    IF Upper(type_str) = "ARRAY<FLOAT>" THEN "FLOAT" ELSE NoType

ExtractVarcharLength(type_str) ==
    CASE Upper(type_str) = "VARCHAR(512)" -> 512
      [] Upper(type_str) = "VARCHAR(36)" -> 36
      [] OTHER -> NoLength

\* norm.split("(")[0]
BaseType(norm) == IF StartsWith(norm, "VARCHAR") THEN "VARCHAR" ELSE norm

TypesCompatible(expected, actual) ==
    LET expected_norm == Upper(expected)
        actual_norm == Upper(actual)
        expected_elem == ExtractArrayElementType(expected_norm)
        actual_elem == ExtractArrayElementType(actual_norm)
        expected_len == ExtractVarcharLength(expected_norm)
        actual_len == ExtractVarcharLength(actual_norm)
        float_types == {"FLOAT", "DOUBLE"}
        text_types == {"TEXT", "STRING"}
    IN  IF expected_norm = actual_norm THEN TRUE
        ELSE IF expected_elem # NoType \/ actual_elem # NoType
        THEN IF expected_elem = NoType \/ actual_elem = NoType THEN FALSE
             ELSE IF expected_elem \in float_types /\ actual_elem \in float_types
             THEN TRUE
             ELSE expected_elem = actual_elem
        ELSE IF StartsWith(expected_norm, "VARCHAR")
                /\ StartsWith(actual_norm, "VARCHAR")
        THEN IF expected_len # NoLength /\ actual_len # NoLength
             THEN actual_len >= expected_len
             ELSE TRUE
        ELSE IF BaseType(expected_norm) \in text_types
                /\ BaseType(actual_norm) \in text_types
        THEN TRUE
        ELSE IF StartsWith(expected_norm, "VARCHAR")
                /\ BaseType(actual_norm) \in text_types
        THEN TRUE
        ELSE BaseType(expected_norm) \in text_types
                /\ StartsWith(actual_norm, "VARCHAR")

\* ---- the table in the store ----

\* a column as the store keeps it
Column(doris_type, nullable, is_key) ==
    [doris_type |-> Lower(doris_type), nullable |-> nullable, is_key |-> is_key]

NoTable ==
    [exists |-> FALSE, model |-> "None", columns |-> <<>>, indexes |-> <<>>,
     keys |-> <<>>,
     rows |-> FALSE, job |-> [state |-> "none", column |-> ""],
     build |-> [name |-> "", state |-> "none"]]

\* the columns CREATE TABLE makes of a _State: key columns NOT NULL with a
\* key column type, vector columns NOT NULL, the others as declared
CreatedColumns(state) ==
    LET ks == state.key_fields_schema
        vs == state.value_fields_schema
    IN  [name \in Names(ks) \cup Names(vs) |->
            IF name \in Names(ks)
            THEN Column(ConvertToKeyColumnType(
                            ConvertValueTypeToDorisType(FieldsByName(ks, name).type)),
                        FALSE, TRUE)
            ELSE LET field == FieldsByName(vs, name)
                 IN  Column(ConvertValueTypeToDorisType(field.type),
                            IF IsVectorKind(field.type) THEN FALSE
                            ELSE field.nullable,
                            FALSE)]

\* the indexes of a _State by name; "or []" reads an absent list as empty
IndexesOf(state) ==
    LET all == state.vector_indexes \o state.inverted_indexes
    IN  [name \in {all[i].name : i \in DOMAIN all} |->
            all[CHOOSE i \in DOMAIN all : all[i].name = name]]

\* The table _generate_create_table_ddl describes: DUPLICATE KEY over the
\* key fields, the indexes inline, no rows.
CreatedTable(state) ==
    [exists |-> TRUE, model |-> "DUPLICATE KEY",
     columns |-> CreatedColumns(state),
     keys |-> FieldNames(state.key_fields_schema),
     indexes |-> IndexesOf(state),
     rows |-> FALSE, job |-> [state |-> "none", column |-> ""],
     build |-> [name |-> "", state |-> "none"]]

\* ---- the arguments and the live table drawn ----

SetupKeySchemas ==
    {<<FieldSchema("id", "Int64", FALSE)>>,
     <<FieldSchema("id", "Int64", FALSE), FieldSchema("doc_id", "Int64", FALSE)>>,
     <<FieldSchema("doc_id", "Int64", FALSE), FieldSchema("id", "Int64", FALSE)>>}

\* the _TableKey values: the database and the table of the target
SetupKeys ==
    {[database |-> "db", table |-> "docs"],
     [database |-> "db", table |-> "my-docs"],
     [database |-> "my-db", table |-> "docs"]}

Content == FieldSchema("content", "Str", TRUE)
MyCol == FieldSchema("my-col", "Str", TRUE)

\* the inverted index get_setup_state derives for field my-col
InvertedIndexMyCol ==
    [name |-> "idx_my-col_inv", field_name |-> "my-col", parser |-> "english"]
Extra == FieldSchema("extra", "Str", TRUE)
Embedding == FieldSchema("embedding", "Vector3", FALSE)
Summary == FieldSchema("summary", "Vector3", FALSE)

\* the vector index get_setup_state derives for field summary
SummaryIndex ==
    [name |-> "idx_summary_ann", field_name |-> "summary",
     index_type |-> "hnsw", metric_type |-> "l2_distance", dimension |-> 3]

\* value fields with the index lists get_setup_state derives for them
SetupValueSchemas ==
    {[value_fields_schema |-> <<Content>>,
      vector_indexes |-> <<>>, inverted_indexes |-> <<>>],
     [value_fields_schema |-> <<Content>>,
      vector_indexes |-> <<>>, inverted_indexes |-> <<InvertedIndex>>],
     [value_fields_schema |-> <<Content, Extra>>,
      vector_indexes |-> <<>>, inverted_indexes |-> <<>>],
     [value_fields_schema |-> <<Content, Embedding>>,
      vector_indexes |-> <<>>, inverted_indexes |-> <<>>],
     [value_fields_schema |-> <<Content, Embedding>>,
      vector_indexes |-> <<VectorIndex("hnsw")>>, inverted_indexes |-> <<>>],
     [value_fields_schema |-> <<Content, Embedding>>,
      vector_indexes |-> <<VectorIndex("ivf")>>, inverted_indexes |-> <<>>],
     [value_fields_schema |-> <<Embedding, Summary>>,
      vector_indexes |-> <<VectorIndex("hnsw"), SummaryIndex>>,
      inverted_indexes |-> <<>>],
     [value_fields_schema |-> <<Content, MyCol>>,
      vector_indexes |-> <<>>, inverted_indexes |-> <<InvertedIndexMyCol>>]}

\* what get_setup_state copies from the DorisTarget besides the schema
SetupSettings ==
    {[schema_evolution |-> s[1], auto_create_table |-> s[2],
      schema_change_timeout |-> s[3], index_build_timeout |-> s[4]] :
        s \in {<<"extend", TRUE, 30, 150>>, <<"extend", TRUE, 90, 450>>,
               <<"strict", TRUE, 30, 150>>, <<"strict", TRUE, 90, 450>>,
               <<"extend", FALSE, 90, 450>>}}

SetupState(ks, v, settings) ==
    [key_fields_schema |-> ks,
     value_fields_schema |-> v.value_fields_schema,
     vector_indexes |-> v.vector_indexes,
     inverted_indexes |-> v.inverted_indexes,
     schema_evolution |-> settings.schema_evolution,
     auto_create_table |-> settings.auto_create_table,
     schema_change_timeout |-> settings.schema_change_timeout,
     index_build_timeout |-> settings.index_build_timeout]

SetupStates(settings) ==
    {SetupState(ks, v, settings) : ks \in SetupKeySchemas, v \in SetupValueSchemas}

WithRows(tbl) == [tbl EXCEPT !.rows = TRUE]

\* The live table before the call: none, a table the connector created
\* earlier and loaded, or a table made by other hands (a nullable or text
\* embedding column or one of dimension 4, a BIGINT content column, a
\* UNIQUE KEY table, a table with a column my-col).
LiveTables ==
    LET settings == CHOOSE x \in SetupSettings : TRUE
        made == {WithRows(CreatedTable(st)) : st \in SetupStates(settings)}
        plain == WithRows(CreatedTable(
                    SetupState(<<FieldSchema("id", "Int64", FALSE)>>,
                               [value_fields_schema |-> <<Content, Embedding>>,
                                vector_indexes |-> <<>>,
                                inverted_indexes |-> <<>>],
                               settings)))
    IN  {NoTable} \cup made \cup
        {[plain EXCEPT !.columns["embedding"].nullable = TRUE],
         [plain EXCEPT !.columns["embedding"].doris_type = "text"],
         [plain EXCEPT !.columns["embedding"].doris_type = "array<float>(4)"],
         [plain EXCEPT !.columns["content"].doris_type = "bigint"],
         [plain EXCEPT !.model = "UNIQUE KEY"]}

\* ---- apply_setup_change and _sync_indexes ----

\* The spec apply_setup_change builds for its statements: the constructor
\* is given the connection and retry fields of the state, and the two
\* timeouts are left to the DorisTarget defaults.
SpecOf(state) ==
    [schema_change_timeout |-> DefaultSchemaChangeTimeout,
     index_build_timeout |-> DefaultIndexBuildTimeout]

IdleSetup ==
    [pc |-> "idle",
     applies |-> 0,          \* which call of the run this is
     key |-> None,           \* the _TableKey of the call
     previous |-> None, current |-> None,
     is_extend_mode |-> FALSE,
     has_schema |-> FALSE,   \* actual_schema is not None
     actual_schema |-> <<>>, \* column name -> _ColumnInfo
     missing_columns |-> {},
     missing |-> <<>>,       \* value fields the ALTER loop has still to add
     vec_to_drop |-> {}, inv_to_drop |-> {},
     vec_to_add |-> {}, inv_to_add |-> {},
     synced |-> FALSE,       \* _sync_indexes has been entered
     dropping |-> {},        \* names the DROP INDEX loop has still to visit
     adding_vec |-> {},      \* names the two add loops have still to visit
     adding_inv |-> {},
     dropped_any |-> FALSE,
     idx |-> None,           \* the index the add loops are at
     todo |-> <<>>,          \* create path: vector indexes still to build
     elapsed |-> 0,          \* time.time() - start_time of the current wait
     fast_polls |-> 0,
     timeout |-> 0,          \* the timeout argument of the current wait
     value |-> None,         \* what a wait called alone returned
     polls |-> 0,            \* status queries of the current wait
     sleeps |-> 0,           \* sleeps of the current wait
     faults |-> 0,
     error |-> None,
     before |-> None,        \* the table when the call started
     first |-> None]         \* the table after the first call of the run

SchemaError(what) == [cls |-> "DorisSchemaError", names |-> what]

Raise(c, err) == [c EXCEPT !.pc = "raised", !.error = err]

\* The characters of a name, by class: "letter" is a-z, A-Z or the
\* underscore, "digit" is 0-9, "other" anything else.  Every name of the
\* model but the ones listed is made of letters and underscores.
Shape(name) ==
    CASE name = "my-docs" ->
            <<"letter", "letter", "other", "letter", "letter", "letter", "letter">>
      [] name = "my-db" -> <<"letter", "letter", "other", "letter", "letter">>
      [] name = "my-col" ->
            <<"letter", "letter", "other", "letter", "letter", "letter">>
      [] name = "idx_my-col_inv" ->
            <<"letter", "letter", "letter", "letter", "letter", "letter",
              "other", "letter", "letter", "letter", "letter", "letter",
              "letter", "letter">>
      [] name = "" -> <<>>
      [] OTHER -> <<"letter">>

\* re.match(r"^[a-zA-Z_][a-zA-Z0-9_]*$", name)
MatchesIdentifier(name) ==
    LET s == Shape(name)
    IN  /\ s # <<>>
        /\ s[1] = "letter"
        /\ \A i \in 2..Len(s) : s[i] \in {"letter", "digit"}

\* _validate_identifier: the error, or None
ValidateIdentifier(name) ==
    IF MatchesIdentifier(name) THEN None ELSE SchemaError(name)

\* the first error of a sequence of validations, or None
FirstError(errors) ==
    IF \A i \in DOMAIN errors : errors[i] = None THEN None
    ELSE errors[CHOOSE i \in DOMAIN errors :
                   /\ errors[i] # None
                   /\ \A j \in 1..(i - 1) : errors[j] = None]

\* the two names of every index of a list, in the order they are validated
IndexIdentifiers(indexes) ==
    [i \in 1..(2 * Len(indexes)) |->
        IF i % 2 = 1 THEN indexes[(i + 1) \div 2].name
        ELSE indexes[i \div 2].field_name]

\* The identifier validations of _generate_create_table_ddl, in its order:
\* database, table, key fields, value fields, then the name and the field
\* of every vector index and of every inverted index.  The error, or None
\* when the statement text is built.
GenerateCreateTableDdl(key, state) ==
    LET names == <<key.database, key.table>>
                    \o FieldNames(state.key_fields_schema)
                    \o FieldNames(state.value_fields_schema)
                    \o IndexIdentifiers(state.vector_indexes)
                    \o IndexIdentifiers(state.inverted_indexes)
    IN  FirstError([i \in DOMAIN names |-> ValidateIdentifier(names[i])])

Return(c) == [c EXCEPT !.pc = "returned"]

\* start_time = time.time() of a wait called with timeout
StartWaitFor(c, at, timeout) ==
    [c EXCEPT !.pc = at, !.timeout = timeout, !.elapsed = 0, !.fast_polls = 0,
              !.polls = 0, !.sleeps = 0]

\* a wait of apply_setup_change or _sync_indexes: the timeout is the one of
\* the spec built for the call
StartWait(c, at) ==
    StartWaitFor(c, at,
                 IF at = "wait_build" THEN SpecOf(c.current).index_build_timeout
                 ELSE SpecOf(c.current).schema_change_timeout)

\* the wait is over: its clock is read no more
EndWait(c) ==
    [c EXCEPT !.timeout = 0, !.elapsed = 0, !.fast_polls = 0,
              !.polls = 0, !.sleeps = 0]

\* A mutation of the validation: a nullable column is let through.
ValidateVectorIndexColumnNullable(idx, actual_schema) ==
    IF idx.field_name \notin DOMAIN actual_schema
    THEN SchemaError(idx.field_name)
    ELSE LET col == actual_schema[idx.field_name] IN
         IF ~StartsWith(Upper(col.doris_type), "ARRAY")
         THEN SchemaError(idx.field_name)
         ELSE IF col.dimension # NoDimension /\ col.dimension # idx.dimension
         THEN SchemaError(idx.field_name)
         ELSE None

\* _validate_vector_index_column: the error, or None
ValidateVectorIndexColumn(idx, actual_schema) ==
    IF idx.field_name \notin DOMAIN actual_schema
    THEN SchemaError(idx.field_name)
    ELSE LET col == actual_schema[idx.field_name] IN
         IF ~StartsWith(Upper(col.doris_type), "ARRAY")
         THEN SchemaError(idx.field_name)
         ELSE IF col.nullable THEN SchemaError(idx.field_name)
         ELSE IF col.dimension # NoDimension /\ col.dimension # idx.dimension
         THEN SchemaError(idx.field_name)
         ELSE None

\* _validate_inverted_index_column: the error, or None
ValidateInvertedIndexColumn(idx, actual_schema) ==
    IF idx.field_name \notin DOMAIN actual_schema
    THEN SchemaError(idx.field_name)
    ELSE LET col_type_upper == Upper(actual_schema[idx.field_name].doris_type)
             text_types == {"TEXT", "STRING", "VARCHAR", "CHAR"}
         IN  IF \E t \in text_types : StartsWith(col_type_upper, t)
             THEN None
             ELSE SchemaError(idx.field_name)

\* {idx.name: idx for idx in indexes}: of two indexes of one name the later
\* one stays
ByName(indexes) ==
    [name \in {indexes[i].name : i \in DOMAIN indexes} |->
        indexes[CHOOSE i \in DOMAIN indexes :
                   /\ indexes[i].name = name
                   /\ \A j \in DOMAIN indexes : indexes[j].name = name => j <= i]]

\* Head of the two add loops of _sync_indexes: the next index is validated
\* against the live schema and the wait before its CREATE INDEX begins;
\* behind the loops apply_setup_change returns.
NextAdd(c) ==
    IF c.adding_vec # {}
    THEN LET idx == ByName(c.current.vector_indexes)[CHOOSE n \in c.adding_vec : TRUE]
             err == ValidateVectorIndexColumn(idx, c.actual_schema)
         IN  IF err # None THEN Raise([c EXCEPT !.idx = idx], err)
             ELSE StartWait([c EXCEPT !.idx = idx], "wait_create")
    ELSE IF c.adding_inv # {}
    THEN LET idx == ByName(c.current.inverted_indexes)[CHOOSE n \in c.adding_inv : TRUE]
             err == ValidateInvertedIndexColumn(idx, c.actual_schema)
         IN  IF err # None THEN Raise([c EXCEPT !.idx = idx], err)
             ELSE StartWait([c EXCEPT !.idx = idx], "wait_create")
    ELSE Return(c)

\* the index the add loop is at is done with; the loop goes on
AddDone(c) ==
    NextAdd([c EXCEPT !.adding_vec = @ \ {c.idx.name},
                      !.adding_inv = IF c.adding_vec # {} THEN @
                                     ELSE @ \ {c.idx.name}])

\* A mutation of the step behind the DROP INDEX loop: no wait.
AfterDropsNoWait(c) == NextAdd(c)

\* behind the DROP INDEX loop
AfterDrops(c) ==
    IF c.dropped_any /\ (c.vec_to_add # {} \/ c.inv_to_add # {})
    THEN StartWait(c, "wait_dropped")
    ELSE NextAdd(c)

IsVectorIndex(idx) == "dimension" \in DOMAIN idx

\* A mutation of the diff: a changed definition goes unnoticed.
ChangedNever(prev_idx, curr_idx) == {}

\* "if index definition changed": the names in both dicts whose indexes
\* differ
Changed(prev_idx, curr_idx) ==
    {n \in DOMAIN prev_idx \cap DOMAIN curr_idx : prev_idx[n] # curr_idx[n]}

\* _sync_indexes up to its first statement.  For the vector and for the
\* inverted indexes, each list read as a dict by name: an index is dropped
\* when its name is gone from current or its definition changed, and
\* added when its name is new in current or its definition changed.
SyncIndexes(c) ==
    LET prev_vec_idx == IF c.previous = None THEN <<>>
                        ELSE ByName(c.previous.vector_indexes)
        curr_vec_idx == ByName(c.current.vector_indexes)
        prev_inv_idx == IF c.previous = None THEN <<>>
                        ELSE ByName(c.previous.inverted_indexes)
        curr_inv_idx == ByName(c.current.inverted_indexes)
        vec_changed == Changed(prev_vec_idx, curr_vec_idx)
        inv_changed == Changed(prev_inv_idx, curr_inv_idx)
        vec_to_drop == (DOMAIN prev_vec_idx \ DOMAIN curr_vec_idx) \cup vec_changed
        inv_to_drop == (DOMAIN prev_inv_idx \ DOMAIN curr_inv_idx) \cup inv_changed
        vec_to_add == (DOMAIN curr_vec_idx \ DOMAIN prev_vec_idx) \cup vec_changed
        inv_to_add == (DOMAIN curr_inv_idx \ DOMAIN prev_inv_idx) \cup inv_changed
        c1 == [c EXCEPT !.synced = TRUE,
                        !.vec_to_drop = vec_to_drop,
                        !.inv_to_drop = inv_to_drop,
                        !.vec_to_add = vec_to_add,
                        !.inv_to_add = inv_to_add,
                        !.dropping = vec_to_drop \cup inv_to_drop,
                        !.adding_vec = vec_to_add,
                        !.adding_inv = inv_to_add,
                        !.dropped_any = FALSE]
    IN  IF c1.dropping # {} THEN [c1 EXCEPT !.pc = "drop_index"]
        ELSE AfterDrops(c1)

\* "Verify type compatibility for existing columns", then the indexes
VerifyTypes(c) ==
    LET vs == c.current.value_fields_schema
        bad == {i \in DOMAIN vs :
                   /\ vs[i].name \in DOMAIN c.actual_schema
                   /\ vs[i].name \notin c.missing_columns
                   /\ ~TypesCompatible(ConvertValueTypeToDorisType(vs[i].type),
                                       c.actual_schema[vs[i].name].doris_type)}
    IN  IF bad # {}
        THEN Raise(c, SchemaError(vs[CHOOSE i \in bad : \A j \in bad : i <= j].name))
        ELSE SyncIndexes(c)

\* A mutation of the loop: no missing column is added.
NextMissingSkipped(c) == VerifyTypes(c)

\* head of the loop that adds the missing value columns
NextMissing(c) ==
    IF c.missing # <<>>
    THEN LET err == ValidateIdentifier(Head(c.missing).name)
         IN  IF err # None THEN Raise(c, err)
             ELSE [c EXCEPT !.pc = "add_column"]
    ELSE VerifyTypes(c)

\* A mutation of the checks: only the table model is looked at.
ValidateTableModelOnly(c, table_model) ==
    LET desired_columns == Names(c.current.key_fields_schema)
                              \cup Names(c.current.value_fields_schema)
        missing_columns == desired_columns \ DOMAIN c.actual_schema
    IN  IF table_model # "None" /\ table_model # "DUPLICATE KEY"
        THEN Raise(c, SchemaError("table model"))
        ELSE NextMissing([c EXCEPT
                 !.missing_columns = missing_columns,
                 !.missing = SelectSeq(c.current.value_fields_schema,
                                       LAMBDA f : f.name \in missing_columns)])

\* Behind _get_table_model: the table model, the key columns and the
\* extra and missing columns are checked; then the missing value columns
\* are added.  table_model is "None" when it could not be read.
ValidateTable(c, table_model) ==
    LET ks == c.current.key_fields_schema
        vs == c.current.value_fields_schema
        schema == c.actual_schema
        desired_key_names == Names(ks)
        actual_key_names == {n \in DOMAIN schema : schema[n].is_key}
        bad_keys == {i \in DOMAIN ks :
                        /\ ks[i].name \in DOMAIN schema
                        /\ ~TypesCompatible(
                              ConvertToKeyColumnType(
                                  ConvertValueTypeToDorisType(ks[i].type)),
                              schema[ks[i].name].doris_type)}
        desired_columns == Names(ks) \cup Names(vs)
        extra_columns == DOMAIN schema \ desired_columns
        missing_columns == desired_columns \ DOMAIN schema
    IN  IF table_model # "None" /\ table_model # "DUPLICATE KEY"
        THEN Raise(c, SchemaError("table model"))
        ELSE IF desired_key_names # actual_key_names
        THEN Raise(c, SchemaError("key columns"))
        ELSE IF bad_keys # {}
        THEN Raise(c, SchemaError(ks[CHOOSE i \in bad_keys :
                                        \A j \in bad_keys : i <= j].name))
        ELSE IF extra_columns # {} /\ ~c.is_extend_mode
        THEN Raise(c, SchemaError("extra columns"))
        ELSE IF missing_columns \cap desired_key_names # {}
        THEN Raise(c, SchemaError("missing key columns"))
        ELSE NextMissing([c EXCEPT
                 !.missing_columns = missing_columns,
                 !.missing = SelectSeq(vs, LAMBDA f : f.name \in missing_columns)])

\* behind _get_table_schema
AfterDescribe(c) ==
    IF ~c.has_schema
    THEN IF ~c.current.auto_create_table
         THEN Raise(c, SchemaError("table"))
         ELSE LET err == GenerateCreateTableDdl(c.key, c.current)
              IN  IF err # None THEN Raise(c, err)
                  ELSE [c EXCEPT !.pc = "create_table"]
    ELSE [c EXCEPT !.pc = "table_model"]

\* behind the DROP TABLE of a key schema change
AfterDrop(c) ==
    IF c.current.auto_create_table
    THEN LET err == ValidateIdentifier(c.key.database)
         IN  IF err # None THEN Raise(c, err)
             ELSE [c EXCEPT !.pc = "create_database"]
    ELSE [c EXCEPT !.pc = "describe"]

\* A mutation of the key test: any previous state counts as a key change.
KeySchemaChangedAlways(previous_state, current_state) ==
    previous_state # None

\* A mutation of the key test: only the names of the key fields count.
KeySchemaChangedNames(previous_state, current_state) ==
    /\ previous_state # None
    /\ Names(previous_state.key_fields_schema)
          # Names(current_state.key_fields_schema)

KeySchemaChangedIn(previous_state, current_state) ==
    /\ previous_state # None
    /\ previous_state.key_fields_schema # current_state.key_fields_schema

\* A mutation of the mode: strict whatever the state says.
IsExtendModeNever(state) == FALSE

IsExtendModeOf(state) == state.schema_evolution = "extend"

\* apply_setup_change up to its first statement
Enter(c) ==
    IF c.current = None /\ c.previous = None THEN Return(c)
    ELSE LET state == IF c.current # None THEN c.current ELSE c.previous
             c1 == [c EXCEPT !.is_extend_mode = IsExtendModeOf(state)]
         IN  IF c.current = None
             THEN IF ~c1.is_extend_mode THEN [c1 EXCEPT !.pc = "drop_removed"]
                  ELSE Return(c1)
             ELSE IF KeySchemaChangedIn(c.previous, c.current)
             THEN [c1 EXCEPT !.pc = "drop_recreate"]
             ELSE AfterDrop(c1)

\* a statement or a wait of the call, as the log keeps it
Issued(sql, arg, result) ==
    Append(statements,
           [call |-> setup.applies, sql |-> sql, arg |-> arg, result |-> result])

Fault(c) == [c EXCEPT !.faults = @ + 1]

ConnectionError == [cls |-> "DorisConnectionError", names |-> ""]

\* apply_setup_change(key, previous, current) is called.
ApplySetupChange(key, previous_state, current_state) ==
    /\ setup.pc = "idle"
    /\ setup' = Enter([IdleSetup EXCEPT !.applies = 1,
                                        !.key = key,
                                        !.previous = previous_state,
                                        !.current = current_state,
                                        !.before = store])
    /\ UNCHANGED <<store, statements>>
    /\ UNCHANGED <<retryVars, compatVars, mutateVars>>

\* The call has returned and is made again with the same arguments.
ApplyAgain ==
    /\ setup.pc = "returned"
    /\ setup.applies < MaxApplies
    /\ setup' = Enter([IdleSetup EXCEPT !.applies = setup.applies + 1,
                                        !.key = setup.key,
                                        !.previous = setup.previous,
                                        !.current = setup.current,
                                        !.faults = setup.faults,
                                        !.before = store,
                                        !.first = store])
    /\ UNCHANGED <<store, statements>>
    /\ UNCHANGED <<retryVars, compatVars, mutateVars>>

\* DROP TABLE IF EXISTS, for a removed target or a changed key schema; a
\* failure is logged and the call goes on.
DropTable ==
    /\ setup.pc \in {"drop_removed", "drop_recreate"}
    /\ LET next == IF setup.pc = "drop_removed" THEN Return(setup)
                   ELSE AfterDrop(setup)
       IN  \/ /\ store' = NoTable
              /\ statements' = Issued("DROP TABLE", "", "ok")
              /\ setup' = next
           \/ /\ setup.faults < MaxDdlFaults
              /\ store' = store
              /\ statements' = Issued("DROP TABLE", "", "fault")
              /\ setup' = Fault(next)
    /\ UNCHANGED <<retryVars, compatVars, mutateVars>>

\* _create_database_if_not_exists
CreateDatabase ==
    /\ setup.pc = "create_database"
    /\ \/ /\ statements' = Issued("CREATE DATABASE", "", "ok")
          /\ setup' = [setup EXCEPT !.pc = "describe"]
       \/ /\ setup.faults < MaxDdlFaults
          /\ statements' = Issued("CREATE DATABASE", "", "fault")
          /\ setup' = Fault(Raise(setup, ConnectionError))
    /\ UNCHANGED store
    /\ UNCHANGED <<retryVars, compatVars, mutateVars>>

\* the dimension _get_table_schema finds in a type: the digits in
\* parentheses behind an ARRAY type
DimensionIn(col_type) ==
    IF Upper(col_type) = "ARRAY<FLOAT>(4)" THEN 4 ELSE NoDimension

\* _get_table_schema: DESCRIBE, None when the table does not exist
GetTableSchema ==
    /\ setup.pc = "describe"
    /\ \/ /\ statements' = Issued("DESCRIBE", "", "ok")
          /\ setup' = AfterDescribe(
                [setup EXCEPT
                   !.has_schema = store.exists,
                   !.actual_schema =
                      IF store.exists
                      THEN [n \in DOMAIN store.columns |->
                              [name |-> n,
                               doris_type |-> store.columns[n].doris_type,
                               nullable |-> store.columns[n].nullable,
                               is_key |-> store.columns[n].is_key,
                               dimension |-> DimensionIn(store.columns[n].doris_type)]]
                      ELSE <<>>])
       \/ /\ setup.faults < MaxDdlFaults
          /\ statements' = Issued("DESCRIBE", "", "fault")
          /\ setup' = Fault(Raise(setup, ConnectionError))
    /\ UNCHANGED store
    /\ UNCHANGED <<retryVars, compatVars, mutateVars>>

\* A mutation of the loop: it ends behind its first BUILD INDEX.
BuildNextOnce(c) ==
    IF c.todo = c.current.vector_indexes /\ c.todo # <<>>
    THEN [c EXCEPT !.pc = "build_created"]
    ELSE Return(c)

\* head of the BUILD INDEX loop of the create path
BuildNext(c) ==
    IF c.todo # <<>> THEN [c EXCEPT !.pc = "build_created"] ELSE Return(c)

\* CREATE TABLE IF NOT EXISTS from current
CreateTable ==
    /\ setup.pc = "create_table"
    /\ \/ /\ store' = IF store.exists THEN store ELSE CreatedTable(setup.current)
          /\ statements' = Issued("CREATE TABLE", "", "ok")
          /\ setup' = BuildNext([setup EXCEPT !.todo = setup.current.vector_indexes])
       \/ /\ setup.faults < MaxDdlFaults
          /\ store' = store
          /\ statements' = Issued("CREATE TABLE", "", "fault")
          /\ setup' = Fault(Raise(setup, ConnectionError))
    /\ UNCHANGED <<retryVars, compatVars, mutateVars>>

\* create path: BUILD INDEX of a vector index; a failure is logged
BuildCreated ==
    /\ setup.pc = "build_created"
    /\ LET idx == Head(setup.todo)
           next == BuildNext([setup EXCEPT !.todo = Tail(@)])
       IN  \/ /\ store' = [store EXCEPT !.build =
                              [name |-> idx.name, state |-> "RUNNING"]]
              /\ statements' = Issued("BUILD INDEX", idx.name, "ok")
              /\ setup' = next
           \/ /\ setup.faults < MaxDdlFaults
              /\ store' = store
              /\ statements' = Issued("BUILD INDEX", idx.name, "fault")
              /\ setup' = Fault(next)
    /\ UNCHANGED <<retryVars, compatVars, mutateVars>>

\* _get_table_model (None on any failure) and the checks behind it
GetTableModel ==
    /\ setup.pc = "table_model"
    /\ \/ /\ statements' = Issued("SHOW CREATE TABLE", "", "ok")
          /\ setup' = ValidateTable(setup, store.model)
       \/ /\ setup.faults < MaxDdlFaults
          /\ statements' = Issued("SHOW CREATE TABLE", "", "fault")
          /\ setup' = Fault(ValidateTable(setup, "None"))
    /\ UNCHANGED store
    /\ UNCHANGED <<retryVars, compatVars, mutateVars>>

\* the store refuses a schema change of a table whose last one still runs
Altering == store.job.state = "RUNNING"

\* NULL or NOT NULL of a column added by ALTER TABLE: a vector column is NOT
\* NULL, a NOT NULL column of a type without a default literal becomes NULL
AddedNullable(field) ==
    IF IsVectorKind(field.type) THEN FALSE
    ELSE IF field.nullable THEN TRUE
    ELSE ConvertValueTypeToDorisType(field.type)
             \notin {"TEXT", "STRING", "BIGINT", "FLOAT", "DOUBLE", "BOOLEAN", "JSON"}

\* ALTER TABLE ADD COLUMN for the next missing value column; a failure is
\* logged and the loop goes on
AddColumn ==
    /\ setup.pc = "add_column"
    /\ LET field == Head(setup.missing)
           skipped == NextMissing([setup EXCEPT !.missing = Tail(@)])
       IN  \/ /\ ~Altering
              /\ store' = [store EXCEPT
                              !.columns = @ @@ (field.name :>
                                  Column(ConvertValueTypeToDorisType(field.type),
                                         AddedNullable(field), FALSE)),
                              !.job = [state |-> "RUNNING", column |-> field.name]]
              /\ statements' = Issued("ADD COLUMN", field.name, "ok")
              /\ setup' = StartWait(setup, "wait_add")
           \/ /\ Altering
              /\ store' = store
              /\ statements' = Issued("ADD COLUMN", field.name, "error")
              /\ setup' = skipped
           \/ /\ setup.faults < MaxDdlFaults
              /\ store' = store
              /\ statements' = Issued("ADD COLUMN", field.name, "fault")
              /\ setup' = Fault(skipped)
    /\ UNCHANGED <<retryVars, compatVars, mutateVars>>

\* Elapsed times the clock may show at the next loop test of a wait: the
\* poll interval later, or any later mark when the statement was slow.
NextElapsed(c, poll_interval, marks) ==
    {m \in marks : m > c.elapsed}
        \cup (IF c.fast_polls < MaxFastPolls THEN {c.elapsed + poll_interval}
              ELSE {})

SchemaChangeMarks == {30, 60}
IndexBuildMarks == {150, 300}

\* the answers one poll of a job may get: a running job may have ended
Answers(job_state) ==
    IF job_state = "RUNNING" THEN {"RUNNING", "FINISHED", "CANCELLED"}
    ELSE {job_state}

\* the schema change job after a poll saw it in state answer; a cancelled
\* ADD COLUMN leaves no column
JobSeen(answer) ==
    IF answer = "CANCELLED" /\ store.job.state = "RUNNING"
          /\ store.job.column \in DOMAIN store.columns
    THEN [store EXCEPT
            !.job.state = answer,
            !.columns = [n \in DOMAIN store.columns \ {store.job.column} |->
                            store.columns[n]]]
    ELSE [store EXCEPT !.job.state = answer]

\* "Update actual_schema with the new column"
WithAdded(c, field) ==
    [c EXCEPT !.actual_schema = [n \in DOMAIN @ \cup {field.name} |->
        IF n = field.name
        THEN [name |-> field.name,
              doris_type |-> ConvertValueTypeToDorisType(field.type),
              nullable |-> AddedNullable(field),
              is_key |-> FALSE,
              dimension |-> ExtractVectorDimension(field.type)]
        ELSE @[n]]]

\* A mutation of the wait behind ADD COLUMN: the timeout is fatal.
WaitedAddFatal(c, result) ==
    LET rest == [c EXCEPT !.missing = Tail(@)] IN
    CASE result = "finished" -> NextMissing(WithAdded(rest, Head(c.missing)))
      [] result = "timeout" -> Raise(c, SchemaError("timeout"))
      [] OTHER -> NextMissing(rest)

\* Behind the wait that follows ADD COLUMN: its result is not read; an
\* exception of it is logged with the ones of the ALTER.
WaitedAdd(c, result) ==
    LET rest == [c EXCEPT !.missing = Tail(@)] IN
    IF result \in {"finished", "timeout"}
    THEN NextMissing(WithAdded(rest, Head(c.missing)))
    ELSE NextMissing(rest)

\* A mutation of the wait behind the DROP INDEX loop: a timeout is let by.
WaitedDroppedSoft(c, result) ==
    CASE result \in {"finished", "timeout"} -> NextAdd(c)
      [] OTHER -> Raise(c, SchemaError("cancelled"))

\* behind the wait before the first CREATE INDEX after a DROP INDEX
WaitedDropped(c, result) ==
    CASE result = "finished" -> NextAdd(c)
      [] result = "timeout" -> Raise(c, SchemaError("timeout"))
      [] OTHER -> Raise(c, SchemaError("cancelled"))

\* behind the wait before a CREATE INDEX
WaitedCreate(c, result) ==
    CASE result = "finished" -> [c EXCEPT !.pc = "create_index"]
      [] result = "timeout" -> Raise(c, SchemaError("timeout"))
      [] OTHER -> Raise(c, SchemaError("cancelled"))

\* behind _wait_for_index_build
WaitedBuild(c, result) ==
    CASE result = "finished" -> AddDone(c)
      [] result = "timeout" -> Raise(c, SchemaError("timeout"))
      [] OTHER -> Raise(c, SchemaError("index build"))

\* behind a wait that was called alone: True, False or the exception
WaitedAlone(c, result) ==
    CASE result = "finished" -> [c EXCEPT !.pc = "returned", !.value = TRUE]
      [] result = "timeout" -> [c EXCEPT !.pc = "returned", !.value = FALSE]
      [] OTHER -> Raise(c, SchemaError("cancelled"))

Waited(c, result) ==
    CASE c.pc = "wait_add" -> WaitedAdd(c, result)
      [] c.pc = "wait_dropped" -> WaitedDropped(c, result)
      [] c.pc = "wait_build" -> WaitedBuild(c, result)
      [] c.pc = "wait_create" -> WaitedCreate(c, result)
      [] OTHER -> WaitedAlone(c, result)

\* A mutation of the round: a cancelled job is polled again.
SchemaChangeRoundDeaf(answer) ==
    IF answer \in {"none", "FINISHED"} THEN "finished" ELSE "sleep"

\* What one round of _wait_for_schema_change makes of the answer of its
\* status query ("none": no job of the table; "error": the query failed):
\* the result that ends the wait, or "sleep".
SchemaChangeRound(answer) ==
    CASE answer \in {"none", "FINISHED"} -> "finished"
      [] answer = "CANCELLED" -> "cancelled"
      [] OTHER -> "sleep"

\* The same of _wait_for_index_build ("none": no row of the index in the
\* job list).
IndexBuildRound(answer) ==
    CASE answer \in {"none", "FINISHED"} -> "finished"
      [] answer \in {"CANCELLED", "FAILED"} -> "cancelled"
      [] OTHER -> "sleep"

\* A mutation of the sleep: the loop goes round without it.
SleptNot(c, e, poll_interval) == c

\* asyncio.sleep(poll_interval) at the end of a round; the clock shows e at
\* the loop test behind it
Slept(c, e, poll_interval) ==
    [c EXCEPT !.elapsed = e,
              !.sleeps = @ + 1,
              !.fast_polls = IF e = c.elapsed + poll_interval THEN @ + 1 ELSE @]

\* The rest of a round of a wait behind its status query: the wait ends
\* with the result of the round, or the round sleeps and the loop test
\* lets the wait go on or ends it with a timeout.
WaitRound(c, round, sql, arg, poll_interval, marks, timeout) ==
    IF round # "sleep"
    THEN /\ statements' = Issued(sql, arg, round)
         /\ setup' = Waited(EndWait(c), round)
    ELSE \E e \in NextElapsed(c, poll_interval, marks) :
            IF e < timeout
            THEN /\ statements' = statements
                 /\ setup' = Slept(c, e, poll_interval)
            ELSE /\ statements' = Issued(sql, arg, "timeout")
                 /\ setup' = Waited(EndWait(c), "timeout")

\* One round of _wait_for_schema_change: SHOW ALTER TABLE COLUMN, then
\* the sleep and the loop test.  A failure of the query is logged and the
\* round sleeps.
PollSchemaChange ==
    /\ setup.pc \in {"wait_add", "wait_dropped", "wait_create",
                      "wait_schema_change"}
    /\ LET timeout == setup.timeout
           polled == [setup EXCEPT !.polls = @ + 1]
       IN  \/ \E answer \in Answers(store.job.state) :
                /\ store' = JobSeen(answer)
                /\ WaitRound(polled, SchemaChangeRound(answer),
                             "WAIT SCHEMA CHANGE", setup.pc,
                             SchemaChangePollInterval, SchemaChangeMarks, timeout)
           \/ /\ setup.faults < MaxDdlFaults
              /\ store' = store
              /\ WaitRound(Fault(polled), SchemaChangeRound("error"),
                           "WAIT SCHEMA CHANGE", setup.pc,
                           SchemaChangePollInterval, SchemaChangeMarks, timeout)
    /\ UNCHANGED <<retryVars, compatVars, mutateVars>>

\* A mutation of the handler: a DROP INDEX that failed ends the call.
DropFailedFatal(c) == Raise(c, ConnectionError)

\* "except Exception: warning('Failed to drop index')": the loop goes on
\* with the next index, and behind the last with the rest of the function
DropFailed(c) == IF c.dropping = {} THEN AfterDrops(c) ELSE c

\* DROP INDEX of one of the indexes to drop; a failure is logged and the
\* loop goes on
DropIndex ==
    /\ setup.pc = "drop_index"
    /\ \E name \in setup.dropping :
         LET rest == [setup EXCEPT !.dropping = @ \ {name}]
             next(c) == IF c.dropping = {} THEN AfterDrops(c) ELSE c
         IN  \/ /\ ~Altering
                /\ name \in DOMAIN store.indexes
                /\ store' = [store EXCEPT
                                !.indexes = [n \in DOMAIN @ \ {name} |-> @[n]],
                                !.job = [state |-> "RUNNING", column |-> ""]]
                /\ statements' = Issued("DROP INDEX", name, "ok")
                /\ setup' = next([rest EXCEPT !.dropped_any = TRUE])
             \/ /\ Altering \/ name \notin DOMAIN store.indexes
                /\ store' = store
                /\ statements' = Issued("DROP INDEX", name, "error")
                /\ setup' = DropFailed(rest)
             \/ /\ setup.faults < MaxDdlFaults
                /\ store' = store
                /\ statements' = Issued("DROP INDEX", name, "fault")
                /\ setup' = Fault(DropFailed(rest))
    /\ UNCHANGED <<retryVars, compatVars, mutateVars>>

\* the store takes a CREATE INDEX when no schema change runs, the name is
\* free and the column exists
Creatable(idx) ==
    /\ ~Altering
    /\ idx.name \notin DOMAIN store.indexes
    /\ idx.field_name \in DOMAIN store.columns

\* A mutation of the handler: a failed CREATE INDEX ends the call.
CreateFailedFatal(c) == Raise(c, ConnectionError)

\* "Failed to create ... index": the failure is logged and the loop goes on
CreateFailed(c) == AddDone(c)

\* CREATE INDEX of the index the add loop is at; BUILD INDEX follows for a
\* vector index; a failure is logged and the loop goes on
CreateIndex ==
    /\ setup.pc = "create_index"
    /\ LET idx == setup.idx IN
       \/ /\ Creatable(idx)
          /\ store' = [store EXCEPT !.indexes = @ @@ (idx.name :> idx)]
          /\ statements' = Issued("CREATE INDEX", idx.name, "ok")
          /\ setup' = IF IsVectorIndex(idx)
                      THEN [setup EXCEPT !.pc = "build_index"]
                      ELSE AddDone(setup)
       \/ /\ ~Creatable(idx)
          /\ store' = store
          /\ statements' = Issued("CREATE INDEX", idx.name, "error")
          /\ setup' = CreateFailed(setup)
       \/ /\ setup.faults < MaxDdlFaults
          /\ store' = store
          /\ statements' = Issued("CREATE INDEX", idx.name, "fault")
          /\ setup' = Fault(CreateFailed(setup))
    /\ UNCHANGED <<retryVars, compatVars, mutateVars>>

\* BUILD INDEX of the vector index just created
BuildIndex ==
    /\ setup.pc = "build_index"
    /\ \/ /\ store' = [store EXCEPT !.build =
                          [name |-> setup.idx.name, state |-> "RUNNING"]]
          /\ statements' = Issued("BUILD INDEX", setup.idx.name, "ok")
          /\ setup' = StartWait(setup, "wait_build")
       \/ /\ setup.faults < MaxDdlFaults
          /\ store' = store
          /\ statements' = Issued("BUILD INDEX", setup.idx.name, "fault")
          /\ setup' = Fault(AddDone(setup))
    /\ UNCHANGED <<retryVars, compatVars, mutateVars>>

\* the answers one poll of a build job may get: a running build may have
\* ended
BuildAnswers(job_state) ==
    IF job_state = "RUNNING" THEN {"RUNNING", "FINISHED", "CANCELLED", "FAILED"}
    ELSE {job_state}

\* One round of _wait_for_index_build: SHOW BUILD INDEX, then the sleep
\* and the loop test.  A job list without a row of the index counts as
\* done; a failure of the query is logged and the round sleeps.
PollIndexBuild ==
    /\ setup.pc \in {"wait_build", "wait_index_build"}
    /\ LET timeout == setup.timeout
           mine == store.build.name = setup.idx.name
           polled == [setup EXCEPT !.polls = @ + 1]
       IN  \/ \E answer \in (IF mine THEN BuildAnswers(store.build.state)
                              ELSE {"none"}) :
                /\ store' = IF mine THEN [store EXCEPT !.build.state = answer]
                            ELSE store
                /\ WaitRound(polled, IndexBuildRound(answer),
                             "WAIT INDEX BUILD", setup.idx.name,
                             IndexBuildPollInterval, IndexBuildMarks, timeout)
           \/ /\ setup.faults < MaxDdlFaults
              /\ store' = store
              /\ WaitRound(Fault(polled), IndexBuildRound("error"),
                           "WAIT INDEX BUILD", setup.idx.name,
                           IndexBuildPollInterval, IndexBuildMarks, timeout)
    /\ UNCHANGED <<retryVars, compatVars, mutateVars>>

\* previous is None, or the state the live table was made of by an earlier
\* call; current is None or a state of the same settings
ApplyAny ==
    /\ setup.pc = "idle"
    /\ \E settings \in SetupSettings, key \in SetupKeys :
         \E previous_state \in
                {st \in SetupStates(settings) : WithRows(CreatedTable(st)) = store}
                    \cup {None},
            current_state \in SetupStates(settings) \cup {None} :
              ApplySetupChange(key, previous_state, current_state)

InitSetup ==
    /\ store \in LiveTables
    /\ setup = IdleSetup
    /\ statements = <<>>
    /\ RetryIdle
    /\ CompatIdle
    /\ MutateIdle

NextSetup ==
    \/ ApplyAny
    \/ ApplyAgain
    \/ DropTable
    \/ CreateDatabase
    \/ GetTableSchema
    \/ CreateTable
    \/ BuildCreated
    \/ GetTableModel
    \/ AddColumn
    \/ PollSchemaChange
    \/ DropIndex
    \/ CreateIndex
    \/ BuildIndex
    \/ PollIndexBuild

SpecSetup == InitSetup /\ [][NextSetup]_vars

\* ---- the two waits called alone ----

\* _wait_for_schema_change(spec, key, timeout) is called, with a timeout
\* the clock of the model can reach.
WaitForSchemaChange ==
    /\ setup.pc = "idle"
    /\ \E key \in SetupKeys, timeout \in SchemaChangeMarks :
         setup' = StartWaitFor([IdleSetup EXCEPT !.applies = 1,
                                                 !.key = key,
                                                 !.before = store],
                               "wait_schema_change", timeout)
    /\ UNCHANGED <<store, statements>>
    /\ UNCHANGED <<retryVars, compatVars, mutateVars>>

\* _wait_for_index_build(spec, key, index_name, timeout) is called.
WaitForIndexBuild ==
    /\ setup.pc = "idle"
    /\ \E key \in SetupKeys, timeout \in IndexBuildMarks,
          idx \in {VectorIndex("hnsw"), SummaryIndex} :
         setup' = StartWaitFor([IdleSetup EXCEPT !.applies = 1,
                                                 !.key = key,
                                                 !.idx = idx,
                                                 !.before = store],
                               "wait_index_build", timeout)
    /\ UNCHANGED <<store, statements>>
    /\ UNCHANGED <<retryVars, compatVars, mutateVars>>

\* the jobs the store may hold when a wait begins
JobStates == {"none", "RUNNING", "FINISHED", "CANCELLED"}
BuildStates == {"none", "RUNNING", "FINISHED", "CANCELLED", "FAILED"}

\* a table with two vector indexes, a schema change job and a build job
InitWait ==
    /\ \E job_state \in JobStates, build_state \in BuildStates :
         store = [WithRows(CreatedTable(
                      SetupState(<<FieldSchema("id", "Int64", FALSE)>>,
                                 [value_fields_schema |-> <<Embedding, Summary>>,
                                  vector_indexes |-> <<VectorIndex("hnsw"),
                                                       SummaryIndex>>,
                                  inverted_indexes |-> <<>>],
                                 CHOOSE x \in SetupSettings : TRUE)))
                  EXCEPT !.job = [state |-> job_state, column |-> ""],
                         !.build = [name |-> IF build_state = "none" THEN ""
                                             ELSE "idx_embedding_ann",
                                    state |-> build_state]]
    /\ setup = IdleSetup
    /\ statements = <<>>
    /\ RetryIdle
    /\ CompatIdle
    /\ MutateIdle

NextWait ==
    \/ WaitForSchemaChange
    \/ WaitForIndexBuild
    \/ PollSchemaChange
    \/ PollIndexBuild

SpecWait == InitWait /\ [][NextWait]_vars

\* The same with time advancing: a wait that can make its next round makes
\* it (the event loop resumes the coroutine when the statement or the sleep
\* it awaits is done).
SpecWaitFair ==
    /\ InitWait
    /\ [][NextWait]_vars
    /\ WF_vars(PollSchemaChange)
    /\ WF_vars(PollIndexBuild)

(***************************************************************************)
(* Properties of apply_setup_change                                        *)
(***************************************************************************)
\* the statements of kind sql in the log
IssuedOf(sql) == {i \in DOMAIN statements : statements[i].sql = sql}

\* the evolution mode the call runs in: the one of "current or previous"
ModeOf(c) ==
    IF c.current # None THEN c.current.schema_evolution
    ELSE c.previous.schema_evolution

\* the key fields of previous and current differ
KeyFieldsDiffer(c) ==
    /\ c.previous # None
    /\ c.current # None
    /\ c.previous.key_fields_schema # c.current.key_fields_schema

\* a call has been made and is not over
Called(c) == c.pc # "idle"

Over(c) == c.pc \in {"returned", "raised"}

MadeOf(state) ==
    /\ store.exists
    /\ store.keys = FieldNames(state.key_fields_schema)
    /\ store.columns = CreatedColumns(state)
    /\ ~store.rows

\* C12: when previous and current are both present and their key fields
\* differ, DROP TABLE is the first statement of the call (before the live
\* schema is read), and whenever the call returns without raising the
\* table exists with exactly current's key columns as its key columns, as
\* CREATE TABLE makes it from current, and holds none of the rows it held
\* before the call.
C12_KeyChangeRecreates ==
    (Called(setup) /\ KeyFieldsDiffer(setup)) =>
        /\ \A i \in DOMAIN statements :
              (statements[i].call = setup.applies
                  /\ statements[i].sql = "DESCRIBE") =>
                 \E j \in 1..(i - 1) :
                    /\ statements[j].call = setup.applies
                    /\ statements[j].sql = "DROP TABLE"
        /\ setup.pc = "returned" => MadeOf(setup.current)

\* the same, for the calls whose DROP TABLE did not fail
KeyChangeRecreatesWhenDropped ==
    (Called(setup) /\ KeyFieldsDiffer(setup) /\ setup.pc = "returned"
        /\ \E i \in IssuedOf("DROP TABLE") :
              /\ statements[i].call = setup.applies
              /\ statements[i].result = "ok") =>
        MadeOf(setup.current)

\* the value columns of the table before the call that current does not
\* declare
ExtraColumns(c) ==
    {n \in DOMAIN c.before.columns :
        /\ ~c.before.columns[n].is_key
        /\ n \notin Names(c.current.key_fields_schema)
                      \cup Names(c.current.value_fields_schema)}

\* a call in extend mode on an existing table with such a column
ExtendWithExtra(c) ==
    /\ Called(c)
    /\ c.current # None
    /\ ModeOf(c) = "extend"
    /\ c.before.exists
    /\ ExtraColumns(c) # {}

\* no statement of the call drops the table or a column, and the extra
\* columns and the rows are as before the call
ExtraKept(c) ==
    /\ \A i \in DOMAIN statements :
          statements[i].call = c.applies =>
              statements[i].sql \notin {"DROP TABLE", "DROP COLUMN"}
    /\ store.exists
    /\ \A n \in ExtraColumns(c) :
          /\ n \in DOMAIN store.columns
          /\ store.columns[n] = c.before.columns[n]
    /\ store.rows = c.before.rows

\* C13 as stated: in extend mode a value column of the existing table that
\* current does not declare is never removed.
C13_Original == ExtendWithExtra(setup) => ExtraKept(setup)

\* C13: in extend mode, when the key fields of previous and current do not
\* differ, a value column of the existing table that current does not
\* declare is never removed: no statement dropping the column or the table
\* is issued, and the column and the rows are still in the table.
C13_ExtendKeepsExtraColumn ==
    (ExtendWithExtra(setup) /\ ~KeyFieldsDiffer(setup)) => ExtraKept(setup)

\* such a call has returned, having read the table and left the column
C13_Witness ==
    /\ ExtendWithExtra(setup)
    /\ ~KeyFieldsDiffer(setup)
    /\ setup.pc = "returned"
    /\ setup.has_schema
    /\ ExtraKept(setup)

\* the ADD COLUMN statements of the call for column n
AddsOf(c, n) ==
    {i \in DOMAIN statements :
        /\ statements[i].call = c.applies
        /\ statements[i].sql = "ADD COLUMN"
        /\ statements[i].arg = n}

\* the call has found value columns to add in an extend-mode reconcile
ExtendWithMissing(c) ==
    /\ Called(c)
    /\ c.current # None
    /\ ModeOf(c) = "extend"
    /\ c.missing_columns # {}

\* the call was ended by the name of a missing column that is no identifier
BadColumnName(c) ==
    /\ c.pc = "raised"
    /\ \E n \in c.missing_columns :
          /\ ~MatchesIdentifier(n)
          /\ c.error = SchemaError(n)

\* one ALTER at most per missing column and exactly one when the call is
\* over (unless the name of a missing column ended it), none for a column
\* of the live table, and the rows are kept
OneAlterEach(c) ==
    /\ \A n \in c.missing_columns :
          /\ Cardinality(AddsOf(c, n)) <= 1
          /\ (Over(c) /\ ~BadColumnName(c)) => Cardinality(AddsOf(c, n)) = 1
    /\ \A n \in DOMAIN c.before.columns : AddsOf(c, n) = {}
    /\ store.exists
    /\ store.rows = c.before.rows

NoFault(c) ==
    \A i \in DOMAIN statements :
        statements[i].call = c.applies => statements[i].result # "fault"

\* C15: in strict mode, when the live table has a value column the
\* declared schema lacks, the call (no statement of which fails) drops the
\* table and recreates it with the declared schema.
C15_StrictRecreates ==
    (/\ Over(setup)
     /\ setup.current # None
     /\ ModeOf(setup) = "strict"
     /\ setup.before.exists
     /\ ExtraColumns(setup) # {}
     /\ NoFault(setup)) =>
        /\ setup.pc = "returned"
        /\ \E i \in IssuedOf("DROP TABLE") : statements[i].call = setup.applies
        /\ MadeOf(setup.current)

\* what of a table a caller can tell: existence, key, columns, indexes, rows
Visible(tbl) ==
    [exists |-> tbl.exists, keys |-> tbl.keys, columns |-> tbl.columns,
     indexes |-> tbl.indexes, rows |-> tbl.rows]

\* the store answered every statement of the run and every wait saw its
\* job finished
Answered ==
    \A i \in DOMAIN statements :
        statements[i].result \notin {"fault", "timeout", "cancelled"}

\* C16: a second call with the same (key, previous, current), right after
\* a first one that returned, leaves the table (existence, columns,
\* indexes, rows) as the first call left it and does not raise; stated
\* for the runs in which no statement meets a connection failure and
\* every wait sees its job finished.
C16_Idempotent ==
    (setup.applies = MaxApplies /\ Over(setup) /\ Answered) =>
        /\ setup.pc = "returned"
        /\ Visible(store) = Visible(setup.first)

\* a second call has returned after the first one changed the table
C16_Witness ==
    /\ setup.applies = MaxApplies
    /\ setup.pc = "returned"
    /\ Answered
    /\ setup.current # None
    /\ \E i \in DOMAIN statements :
          /\ statements[i].call = 1
          /\ statements[i].sql \in {"ADD COLUMN", "CREATE INDEX", "DROP INDEX",
                                    "CREATE TABLE"}
          /\ statements[i].result = "ok"
    /\ Visible(store) = Visible(setup.first)

\* the same without the proviso: a statement of the first call that failed
\* and was only logged is made again by the second
IdempotentWhateverTheStore ==
    (setup.applies = MaxApplies /\ Over(setup)) =>
        /\ setup.pc = "returned"
        /\ Visible(store) = Visible(setup.first)

\* C17: a schema-change wait of the call goes on only while less than the
\* schema_change_timeout of the state passed to apply_setup_change has
\* elapsed, and an index-build wait only while less than its
\* index_build_timeout has.
C17_WaitsBoundedByState ==
    /\ setup.pc \in {"wait_add", "wait_dropped", "wait_create"} =>
          setup.elapsed < setup.current.schema_change_timeout
    /\ setup.pc = "wait_build" =>
          setup.elapsed < setup.current.index_build_timeout

\* the bounds the waits do keep: the defaults of DorisTarget
WaitsBoundedByDefaults ==
    /\ setup.pc \in {"wait_add", "wait_dropped", "wait_create"} =>
          setup.elapsed < DefaultSchemaChangeTimeout
    /\ setup.pc = "wait_build" =>
          setup.elapsed < DefaultIndexBuildTimeout

\* the native types that count as array types and as text-compatible
ArrayTypes == {"ARRAY<FLOAT>", "ARRAY<FLOAT>(4)"}
TextTypes == {"TEXT", "STRING", "VARCHAR(512)", "VARCHAR(36)"}

\* the conditions under which an index is to be accepted
VectorAccepted(idx, schema) ==
    /\ idx.field_name \in DOMAIN schema
    /\ Upper(schema[idx.field_name].doris_type) \in ArrayTypes
    /\ ~schema[idx.field_name].nullable
    /\ schema[idx.field_name].dimension \in {NoDimension, idx.dimension}

InvertedAccepted(idx, schema) ==
    /\ idx.field_name \in DOMAIN schema
    /\ Upper(schema[idx.field_name].doris_type) \in TextTypes

Accepted(idx, schema) ==
    IF IsVectorIndex(idx) THEN VectorAccepted(idx, schema)
    ELSE InvertedAccepted(idx, schema)

\* live schemas of one column, or none, for an index on field name
SchemasFor(name) ==
    {<<>>} \cup
    {(name :> [name |-> name, doris_type |-> t, nullable |-> n,
               is_key |-> FALSE, dimension |-> dim]) :
        t \in {"array<float>", "array<float>(4)", "text", "json", "bigint",
               "varchar(512)"},
        n \in BOOLEAN, dim \in {NoDimension, 3, 4}}

\* the statements of the call that create or build index idx
MakesOf(c, idx) ==
    {i \in DOMAIN statements :
        /\ statements[i].call = c.applies
        /\ statements[i].sql \in {"CREATE INDEX", "BUILD INDEX"}
        /\ statements[i].arg = idx.name}

\* C18: with a live schema supplied, every index to add is validated
\* before its CREATE INDEX: a vector index is accepted iff its column
\* exists, has an array type, is NOT NULL and has, when the column reports
\* a dimension, the declared one; an inverted index iff its column exists
\* and has a text-compatible type; a violation raises a DorisSchemaError
\* naming the column, and no CREATE INDEX or BUILD INDEX is issued for
\* that index.
C18_IndexValidation ==
    /\ setup.applies = 0 =>
          \* the two validators on every schema of one column: these
          \* conjuncts do not read the state and are looked at before the
          \* first call
          /\ \A index_type \in {"hnsw", "ivf"} :
                \A schema \in SchemasFor("embedding") :
                   LET idx == VectorIndex(index_type) IN
                   IF VectorAccepted(idx, schema)
                   THEN ValidateVectorIndexColumn(idx, schema) = None
                   ELSE ValidateVectorIndexColumn(idx, schema)
                            = SchemaError(idx.field_name)
          /\ \A schema \in SchemasFor("content") :
                IF InvertedAccepted(InvertedIndex, schema)
                THEN ValidateInvertedIndexColumn(InvertedIndex, schema) = None
                ELSE ValidateInvertedIndexColumn(InvertedIndex, schema)
                         = SchemaError(InvertedIndex.field_name)
    /\ (Called(setup) /\ setup.has_schema /\ setup.idx # None) =>
          IF Accepted(setup.idx, setup.actual_schema)
          THEN ~(setup.pc = "raised"
                    /\ setup.error = SchemaError(setup.idx.field_name))
          ELSE /\ setup.pc = "raised"
               /\ setup.error = SchemaError(setup.idx.field_name)
               /\ MakesOf(setup, setup.idx) = {}

\* a vector index on a nullable array column of the live table was refused
C18_Witness ==
    /\ setup.has_schema
    /\ setup.idx # None
    /\ IsVectorIndex(setup.idx)
    /\ setup.idx.field_name \in DOMAIN setup.actual_schema
    /\ setup.actual_schema[setup.idx.field_name].nullable
    /\ setup.pc = "raised"
    /\ setup.error = SchemaError(setup.idx.field_name)
    /\ MakesOf(setup, setup.idx) = {}

(***************************************************************************)
(* Properties of the identifiers, the waits and the index synchronizer     *)
(***************************************************************************)
\* the identifiers written into the text of a DDL statement of the log
\* (the status queries and the reads of the schema are no DDL statements)
IdentifiersIn(c, st) ==
    LET target == {c.key.database, c.key.table}
        state == IF c.current # None THEN c.current ELSE c.previous
        all == state.vector_indexes \o state.inverted_indexes
    IN  CASE st.sql = "CREATE DATABASE" -> {c.key.database}
          [] st.sql = "DROP TABLE" -> target
          [] st.sql = "CREATE TABLE" ->
                target \cup Names(state.key_fields_schema)
                      \cup Names(state.value_fields_schema)
                      \cup {all[i].name : i \in DOMAIN all}
                      \cup {all[i].field_name : i \in DOMAIN all}
          [] st.sql \in {"ADD COLUMN", "DROP INDEX", "BUILD INDEX"} ->
                target \cup {st.arg}
          [] st.sql = "CREATE INDEX" ->
                target \cup {st.arg}
                      \cup {all[i].field_name :
                               i \in {j \in DOMAIN all : all[j].name = st.arg}}
          [] OTHER -> {}

\* C21: no DDL statement is issued that contains an identifier (database,
\* table, column, index name or index target field) which does not match
\* ^[a-zA-Z_][a-zA-Z0-9_]*$, on any path of apply_setup_change or of the
\* index synchronizer.
C21_IdentifiersValidated ==
    Called(setup) =>
        \A i \in DOMAIN statements :
            \A n \in IdentifiersIn(setup, statements[i]) : MatchesIdentifier(n)

\* the same for the statements whose text the connector does validate:
\* CREATE DATABASE and CREATE TABLE in full, and the column of ADD COLUMN
IdentifiersValidatedWhereChecked ==
    Called(setup) =>
        \A i \in DOMAIN statements :
            /\ statements[i].sql \in {"CREATE DATABASE", "CREATE TABLE"} =>
                  \A n \in IdentifiersIn(setup, statements[i]) :
                      MatchesIdentifier(n)
            /\ statements[i].sql = "ADD COLUMN" =>
                  MatchesIdentifier(statements[i].arg)

\* the call was ended by _generate_create_table_ddl refusing a name
BuilderRefused(c) ==
    /\ c.pc = "raised"
    /\ c.current # None
    /\ ~c.has_schema
    /\ c.current.auto_create_table
    /\ statements # <<>>
    /\ statements[Len(statements)].sql = "DESCRIBE"
    /\ statements[Len(statements)].result = "ok"
    /\ c.error # None
    /\ c.error = GenerateCreateTableDdl(c.key, c.current)

\* C22: when apply_setup_change fails because building the CREATE TABLE
\* text refuses an identifier of current, the store is as it was before
\* the call; an existing table has not been dropped.
C22_BuilderFailureLeavesStore ==
    BuilderRefused(setup) =>
        /\ store = setup.before
        /\ \A i \in DOMAIN statements :
              statements[i].call = setup.applies =>
                  statements[i].sql \notin {"DROP TABLE", "CREATE TABLE"}

\* the same for the calls whose key fields did not change
BuilderFailureWithoutKeyChange ==
    (BuilderRefused(setup) /\ ~KeyFieldsDiffer(setup)) => store = setup.before

\* the statements of the call, in the order they were issued
StatementsOf(c) == SelectSeq(statements, LAMBDA st : st.call = c.applies)

\* the statements of the call of one of the kinds
KindsOf(c, kinds) == SelectSeq(StatementsOf(c), LAMBDA st : st.sql \in kinds)

\* DESCRIBE found no table and the call may create one
CreatePath(c) ==
    /\ Called(c)
    /\ c.current # None
    /\ c.current.auto_create_table
    /\ ~c.has_schema
    /\ \E i \in DOMAIN StatementsOf(c) :
          /\ StatementsOf(c)[i].sql = "DESCRIBE"
          /\ StatementsOf(c)[i].result = "ok"

\* C23: when the table is absent and auto_create_table is enabled, the call
\* has created the database, emits CREATE TABLE once (at most once, and
\* exactly once when it returns), then one BUILD INDEX for each declared
\* vector index, in their order; a failing BUILD INDEX is not raised and
\* does not keep the later ones from being issued: once CREATE TABLE has
\* succeeded the call cannot raise, and it returns without a statement of
\* the alter path or of the index synchronizer.
C23_CreatePath ==
    CreatePath(setup) =>
        LET sts == StatementsOf(setup)
            creates == KindsOf(setup, {"CREATE TABLE"})
            builds == KindsOf(setup, {"BUILD INDEX"})
            declared == setup.current.vector_indexes
        IN  /\ \E i \in DOMAIN sts : /\ sts[i].sql = "CREATE DATABASE"
                                     /\ sts[i].result = "ok"
            /\ Len(creates) <= 1
            /\ setup.pc = "returned" => Len(creates) = 1
            /\ \A i \in DOMAIN sts :
                  sts[i].sql \in {"DROP TABLE", "CREATE DATABASE", "DESCRIBE",
                                  "CREATE TABLE", "BUILD INDEX"}
            /\ ~setup.synced
            /\ Len(builds) <= Len(declared)
            /\ \A i \in DOMAIN builds : builds[i].arg = declared[i].name
            /\ builds # <<>> => /\ creates # <<>>
                                /\ creates[1].result = "ok"
                                /\ sts[Len(sts) - Len(builds)].sql = "CREATE TABLE"
            /\ (creates # <<>> /\ creates[1].result = "ok") =>
                  /\ setup.pc # "raised"
                  /\ setup.pc = "returned" => Len(builds) = Len(declared)

\* a table with two vector indexes was created; the first BUILD INDEX
\* failed, the second was issued and the call returned
C23_Witness ==
    /\ CreatePath(setup)
    /\ setup.pc = "returned"
    /\ Len(setup.current.vector_indexes) = 2
    /\ LET builds == KindsOf(setup, {"BUILD INDEX"})
       IN  /\ Len(builds) = 2
           /\ builds[1].result = "fault"
           /\ builds[2].result = "ok"
    /\ store.exists

\* the statements of the call that change the columns or the indexes
Alterations(c) ==
    KindsOf(c, {"ADD COLUMN", "DROP INDEX", "CREATE INDEX", "BUILD INDEX"})

\* the desired keys are not the keys of the live table, by name or by type
KeysMismatch(c) ==
    LET ks == c.current.key_fields_schema
    IN  \/ Names(ks) # {n \in DOMAIN c.actual_schema : c.actual_schema[n].is_key}
        \/ \E i \in DOMAIN ks :
              /\ ks[i].name \in DOMAIN c.actual_schema
              /\ ~TypesCompatible(
                    ConvertToKeyColumnType(ConvertValueTypeToDorisType(ks[i].type)),
                    c.actual_schema[ks[i].name].doris_type)

\* strict mode and a column of the live table that current does not declare
StrictExtra(c) ==
    /\ ModeOf(c) = "strict"
    /\ DOMAIN c.actual_schema
          \ (Names(c.current.key_fields_schema)
                \cup Names(c.current.value_fields_schema)) # {}

\* the call stopped at the checks: a DorisSchemaError and no alteration
StoppedAtChecks(c) ==
    /\ Alterations(c) = <<>>
    /\ c.pc \in {"table_model", "raised"}
    /\ c.pc = "raised" => c.error.cls = "DorisSchemaError"

\* the call has read the schema of an existing table
AlterPath(c) == Called(c) /\ c.current # None /\ c.has_schema

ModelRead(c) ==
    \E i \in DOMAIN StatementsOf(c) :
        /\ StatementsOf(c)[i].sql = "SHOW CREATE TABLE"
        /\ StatementsOf(c)[i].result = "ok"

C25_SchemaChangeWait ==
    [][setup.pc = "wait_schema_change" =>
         LET answered == setup'.faults = setup.faults
             answer == store'.job.state
             late == \E e \in NextElapsed(setup, SchemaChangePollInterval,
                                          SchemaChangeMarks) :
                         e >= setup.timeout
         IN  /\ (answered /\ answer \in {"none", "FINISHED"}) =>
                   /\ setup'.pc = "returned"
                   /\ setup'.value = TRUE
             /\ (answered /\ answer = "CANCELLED") =>
                   /\ setup'.pc = "raised"
                   /\ setup'.error = SchemaError("cancelled")
             /\ (~answered \/ answer \notin {"none", "FINISHED", "CANCELLED"}) =>
                   \/ /\ setup'.pc = "wait_schema_change"
                      /\ setup'.elapsed < setup.timeout
                      /\ setup'.elapsed > setup.elapsed
                   \/ /\ late
                      /\ setup'.pc = "returned"
                      /\ setup'.value = FALSE
       ]_vars

\* a wait called alone has polled, slept and returned False on the timeout
C25_Witness ==
    /\ setup.pc = "returned"
    /\ setup.value = FALSE
    /\ setup.faults = 0
    /\ statements # <<>>
    /\ statements[Len(statements)].sql = "WAIT SCHEMA CHANGE"
    /\ statements[Len(statements)].arg = "wait_schema_change"
    /\ statements[Len(statements)].result = "timeout"
    /\ store.job.state = "RUNNING"

\* the waits of the call for a schema change that saw the job cancelled
CancelledWaits(c, places) ==
    SelectSeq(StatementsOf(c),
              LAMBDA st : /\ st.sql = "WAIT SCHEMA CHANGE"
                          /\ st.arg \in places
                          /\ st.result = "cancelled")

\* C26: wherever apply_setup_change or the index synchronizer waits for a
\* schema change (behind ADD COLUMN, behind DROP INDEX, before CREATE
\* INDEX), a job seen CANCELLED makes the call raise a DorisSchemaError.
C26_CancelledIsFatal ==
    (Called(setup)
        /\ CancelledWaits(setup, {"wait_add", "wait_dropped", "wait_create"})
              # <<>>) =>
        /\ setup.pc = "raised"
        /\ setup.error = SchemaError("cancelled")

\* the same for the waits of the index synchronizer alone
CancelledIsFatalInSync ==
    (Called(setup)
        /\ CancelledWaits(setup, {"wait_dropped", "wait_create"}) # <<>>) =>
        /\ setup.pc = "raised"
        /\ setup.error = SchemaError("cancelled")

\* the call is in one of its waits
Waiting(c) ==
    c.pc \in {"wait_add", "wait_dropped", "wait_create", "wait_build",
              "wait_schema_change", "wait_index_build"}

\* the clock can show a later time at the next loop test, whatever the
\* store answers
TimeAdvances(c) ==
    IF c.pc \in {"wait_build", "wait_index_build"}
    THEN NextElapsed(c, IndexBuildPollInterval, IndexBuildMarks) # {}
    ELSE NextElapsed(c, SchemaChangePollInterval, SchemaChangeMarks) # {}

\* C27: both polling loops end: a wait is at its loop test only while its
\* timeout has not elapsed, so that it ends at the latest with the round
\* that follows the timeout; it has then slept once for every status query
\* it made; and with time advancing every wait ends, by a result or a
\* DorisSchemaError, whatever the store answers.
C27_WaitsTerminate ==
    /\ [](Waiting(setup) =>
             /\ setup.elapsed < setup.timeout
             /\ setup.sleeps = setup.polls
             /\ TimeAdvances(setup))
    /\ (Waiting(setup) ~> ~Waiting(setup))

\* an index-build wait called alone met a failing status query, slept, and
\* ended on its timeout with the build still running
C27_Witness ==
    /\ setup.pc = "returned"
    /\ setup.value = FALSE
    /\ setup.faults = 1
    /\ statements # <<>>
    /\ statements[Len(statements)].sql = "WAIT INDEX BUILD"
    /\ statements[Len(statements)].result = "timeout"
    /\ store.build.state = "RUNNING"

\* the names of a list of indexes, and the index of a name
NamesOfIndexes(state, kind) ==
    IF state = None THEN {}
    ELSE {state[kind][i].name : i \in DOMAIN state[kind]}

Definition(state, kind, name) ==
    state[kind][CHOOSE i \in DOMAIN state[kind] : state[kind][i].name = name]

\* names in both lists whose definitions differ
InBothChanged(c, kind) ==
    {n \in NamesOfIndexes(c.previous, kind) \cap NamesOfIndexes(c.current, kind) :
        Definition(c.previous, kind, n) # Definition(c.current, kind, n)}

ExpectedToDrop(c, kind) ==
    (NamesOfIndexes(c.previous, kind) \ NamesOfIndexes(c.current, kind))
        \cup InBothChanged(c, kind)

ExpectedToAdd(c, kind) ==
    (NamesOfIndexes(c.current, kind) \ NamesOfIndexes(c.previous, kind))
        \cup InBothChanged(c, kind)

\* the names the statements of the call of a kind were issued for
NamesIn(c, sql) ==
    {KindsOf(c, {sql})[i].arg : i \in DOMAIN KindsOf(c, {sql})}

\* C28: for the vector and the inverted indexes separately, by name,
\* to_drop is the names of previous not in current and the names in both
\* whose definitions differ, and to_add the names of current not in
\* previous and the names in both whose definitions differ; only indexes
\* of to_drop get a DROP INDEX and only indexes of to_add a CREATE INDEX,
\* so an index unchanged in both gets neither; without previous nothing is
\* dropped and every index of current is added.
C28_IndexDiff ==
    (Called(setup) /\ setup.synced) =>
        /\ setup.vec_to_drop = ExpectedToDrop(setup, "vector_indexes")
        /\ setup.inv_to_drop = ExpectedToDrop(setup, "inverted_indexes")
        /\ setup.vec_to_add = ExpectedToAdd(setup, "vector_indexes")
        /\ setup.inv_to_add = ExpectedToAdd(setup, "inverted_indexes")
        /\ NamesIn(setup, "DROP INDEX")
              \subseteq setup.vec_to_drop \cup setup.inv_to_drop
        /\ NamesIn(setup, "CREATE INDEX")
              \subseteq setup.vec_to_add \cup setup.inv_to_add
        /\ setup.pc = "returned" =>
              /\ NamesIn(setup, "DROP INDEX")
                    = setup.vec_to_drop \cup setup.inv_to_drop
              /\ NamesIn(setup, "CREATE INDEX")
                    = setup.vec_to_add \cup setup.inv_to_add
        /\ setup.previous = None =>
              /\ setup.vec_to_drop \cup setup.inv_to_drop = {}
              /\ setup.vec_to_add
                    = NamesOfIndexes(setup.current, "vector_indexes")
              /\ setup.inv_to_add
                    = NamesOfIndexes(setup.current, "inverted_indexes")

\* an index whose definition changed was dropped and created again, and
\* an unchanged index of the same call was left alone
C28_Witness ==
    /\ setup.synced
    /\ setup.pc = "returned"
    /\ setup.previous # None
    /\ setup.vec_to_drop = {"idx_embedding_ann"}
    /\ setup.vec_to_add = {"idx_embedding_ann", "idx_summary_ann"}
    /\ NamesIn(setup, "DROP INDEX") = {"idx_embedding_ann"}
    /\ NamesIn(setup, "CREATE INDEX") = {"idx_embedding_ann", "idx_summary_ann"}

\* positions in the statements of the call
PositionsOf(c, sql) ==
    {i \in DOMAIN StatementsOf(c) : StatementsOf(c)[i].sql = sql}

\* an index was dropped, the DROP INDEX loop is over and there is an index
\* to add
DroppedAndToAdd(c) ==
    /\ Called(c)
    /\ c.synced
    /\ c.pc # "drop_index"
    /\ \E i \in PositionsOf(c, "DROP INDEX") : StatementsOf(c)[i].result = "ok"
    /\ c.vec_to_add \cup c.inv_to_add # {}

\* C29: in the index synchronizer every DROP INDEX is issued before any
\* CREATE INDEX; when an index was dropped and one is to add, the wait for
\* the schema change comes right behind the last DROP INDEX, and when that
\* wait times out the call raises a DorisSchemaError and issues no CREATE
\* INDEX.
C29_DropBeforeCreate ==
    /\ Called(setup) =>
          \A i \in PositionsOf(setup, "DROP INDEX"),
             j \in PositionsOf(setup, "CREATE INDEX") : i < j
    /\ DroppedAndToAdd(setup) =>
          LET sts == StatementsOf(setup)
              last == CHOOSE i \in PositionsOf(setup, "DROP INDEX") :
                         \A k \in PositionsOf(setup, "DROP INDEX") : k <= i
          IN  IF last = Len(sts) THEN setup.pc = "wait_dropped"
              ELSE /\ sts[last + 1].sql = "WAIT SCHEMA CHANGE"
                   /\ sts[last + 1].arg = "wait_dropped"
                   /\ sts[last + 1].result = "timeout" =>
                         /\ setup.pc = "raised"
                         /\ setup.error = SchemaError("timeout")
                         /\ PositionsOf(setup, "CREATE INDEX") = {}

\* the wait behind a DROP INDEX timed out and ended the call before the
\* CREATE INDEX of the changed index
C29_Witness ==
    /\ DroppedAndToAdd(setup)
    /\ setup.pc = "raised"
    /\ setup.error = SchemaError("timeout")
    /\ LET sts == StatementsOf(setup)
       IN  /\ sts[Len(sts)].sql = "WAIT SCHEMA CHANGE"
           /\ sts[Len(sts)].arg = "wait_dropped"
           /\ sts[Len(sts)].result = "timeout"
    /\ PositionsOf(setup, "CREATE INDEX") = {}

\* the index-build waits of the call that ended with result
BuildWaits(c, result) ==
    {i \in PositionsOf(c, "WAIT INDEX BUILD") :
        StatementsOf(c)[i].result = result}

\* C30: behind CREATE INDEX and BUILD INDEX of a vector index the call
\* polls the build jobs: a FINISHED row of the index or no row of it lets
\* the call go on, a CANCELLED or FAILED row raises a DorisSchemaError and
\* ends the call, and a timeout is logged and raises nothing: the call goes
\* on with the remaining indexes.
C30_BuildWaitOutcome ==
    Called(setup) =>
        LET sts == StatementsOf(setup)
        IN  /\ \A i \in PositionsOf(setup, "WAIT INDEX BUILD") :
                  /\ i > 2
                  /\ sts[i - 1].sql = "BUILD INDEX"
                  /\ sts[i - 1].arg = sts[i].arg
                  /\ sts[i - 2].sql = "CREATE INDEX"
                  /\ sts[i - 2].arg = sts[i].arg
            /\ \A i \in BuildWaits(setup, "cancelled") :
                  /\ i = Len(sts)
                  /\ setup.pc = "raised"
                  /\ setup.error = SchemaError("index build")
            /\ \A i \in BuildWaits(setup, "finished") \cup BuildWaits(setup, "timeout") :
                  (i = Len(sts) /\ setup.pc = "raised") =>
                      setup.error \notin {SchemaError("timeout"),
                                          SchemaError("index build")}

\* the same but for the timeout, which ends the call with a
\* DorisSchemaError
BuildWaitOutcomeTimeoutFatal ==
    Called(setup) =>
        LET sts == StatementsOf(setup)
        IN  /\ \A i \in BuildWaits(setup, "cancelled") :
                  /\ i = Len(sts)
                  /\ setup.pc = "raised"
                  /\ setup.error = SchemaError("index build")
            /\ \A i \in BuildWaits(setup, "finished") :
                  (i = Len(sts) /\ setup.pc = "raised") =>
                      setup.error \notin {SchemaError("timeout"),
                                          SchemaError("index build")}
            /\ \A i \in BuildWaits(setup, "timeout") :
                  /\ i = Len(sts)
                  /\ setup.pc = "raised"
                  /\ setup.error = SchemaError("timeout")

(***************************************************************************)
(* _stream_load: one bulk load request under with_retry                    *)
(***************************************************************************)
\* str.upper() of the Status values of the model
StatusUpper(status) ==
    CASE status \in {"Success", "success", "SUCCESS"} -> "SUCCESS"
      [] status \in {"Publish Timeout", "publish timeout"} -> "PUBLISH TIMEOUT"
      [] status = "Fail" -> "FAIL"
      [] status = "Label Already Exists" -> "LABEL ALREADY EXISTS"
      [] OTHER -> status

\* A mutation of the status test: the case of the letters counts.
IsSuccessStatusExact(status) == status \in {"SUCCESS", "PUBLISH TIMEOUT"}

\* status_upper in ("SUCCESS", "PUBLISH TIMEOUT")
IsSuccessStatus(status) == StatusUpper(status) \in {"SUCCESS", "PUBLISH TIMEOUT"}

\* dict.get(key, default)
Get(result, key, default) ==
    IF key \in DOMAIN result THEN result[key] ELSE default

Statuses ==
    {"Success", "success", "SUCCESS", "Publish Timeout", "publish timeout",
     "Fail", "Label Already Exists", "Unknown"}

\* The responses to the PUT: the HTTP status and the body, which is a JSON
\* object (with or without Status and Message) or no JSON at all.
Responses ==
    LET objects == {[Status |-> st, Message |-> "too many filtered rows"] :
                        st \in Statuses}
                   \cup {[Status |-> st] : st \in Statuses}
                   \cup {[Message |-> "too many filtered rows"]}
        bodies == {[parses |-> TRUE, text |-> "{...}", result |-> o] :
                        o \in objects}
                  \cup {[parses |-> FALSE, text |-> "<html>", result |-> <<>>]}
    IN  [status : {200, 401, 403, 500}, body : bodies]

LoadError(message, status) ==
    [cls |-> "DorisStreamLoadError", code |-> 0, message |-> message,
     status |-> status]

\* do_stream_load behind the PUT: what it returns or raises for a response
DoStreamLoad(response) ==
    IF response.status \in {401, 403}
    THEN [kind |-> "raise",
          error |-> [cls |-> "DorisAuthError", code |-> 0,
                     message |-> "Authentication failed", status |-> ""]]
    ELSE IF ~response.body.parses
    THEN [kind |-> "raise",
          error |-> LoadError(response.body.text, "ParseError")]
    ELSE LET result == response.body.result
             status == Get(result, "Status", "Unknown")
         IN  IF ~IsSuccessStatus(status)
             THEN [kind |-> "raise",
                   error |-> LoadError(
                                Get(result, "Message", "Unknown error"), status)]
             ELSE [kind |-> "return", value |-> result]

\* what the PUT itself can raise instead of giving a response
TransportErrors ==
    [cls : {"TimeoutError", "ServerDisconnectedError", "ClientConnectorError",
            "ValueError"},
     code : {0}, message : {""}, status : {""}]

NoResponse == [status |-> 0, body |-> [parses |-> FALSE, text |-> "", result |-> <<>>]]

\* One attempt of with_retry(do_stream_load): the PUT, the response or the
\* exception, and the except block of with_retry up to the sleep.
StreamLoadAttempt ==
    /\ pc = "call"
    /\ \E r \in [response : Responses] \cup [error : TransportErrors] :
         LET n == Len(invocations) + 1
             got == IF "response" \in DOMAIN r THEN DoStreamLoad(r.response)
                    ELSE [kind |-> "raise", error |-> r.error]
             res == IF got.kind = "return"
                    THEN [kind |-> "return", value |-> got.value,
                          response |-> r.response]
                    ELSE [kind |-> "raise",
                          error |-> [got.error EXCEPT !.code = n],
                          response |-> IF "response" \in DOMAIN r
                                       THEN r.response ELSE NoResponse]
         IN
         /\ invocations' = Append(invocations, res)
         /\ IF res.kind = "return"
            THEN /\ outcome' = res
                 /\ pc' = "done"
                 /\ UNCHANGED <<attempt, warnings, last_error>>
            ELSE IF ~IsRetryable(got.error, aiohttp)
            THEN /\ outcome' = res
                 /\ pc' = "done"
                 /\ UNCHANGED <<attempt, warnings, last_error>>
            ELSE /\ last_error' = res.error
                 /\ IF attempt < config.max_retries
                    THEN /\ warnings' = warnings + 1
                         /\ pc' = "sleep"
                         /\ UNCHANGED <<attempt, outcome>>
                    ELSE /\ LoopNext(res.error)
                         /\ UNCHANGED warnings
    /\ UNCHANGED <<config, aiohttp, sleeps>>
    /\ UNCHANGED <<compatVars, mutateVars, setupVars>>

\* _stream_load has built its request and entered with_retry; it has
\* imported aiohttp
InitLoad ==
    /\ InitRetry
    /\ aiohttp = TRUE

NextLoad == StreamLoadAttempt \/ Sleep

SpecLoad == InitLoad /\ [][NextLoad]_vars

\* the attempts that got a response
Answers19 == {i \in DOMAIN invocations : invocations[i].response # NoResponse}

\* the Status of a response body, case folded ("" for a body without one)
ReportedStatus(response) ==
    IF response.body.parses /\ "Status" \in DOMAIN response.body.result
    THEN StatusUpper(response.body.result.Status)
    ELSE ""

\* attempt i got a response that is no success: a DorisStreamLoadError with
\* the reported message is raised and ends with_retry right there, with no
\* sleep and no request behind it
LoadErrorPropagates(i) ==
    LET res == invocations[i]
        body == res.response.body
    IN  /\ res.kind = "raise"
        /\ res.error.cls = "DorisStreamLoadError"
        /\ res.error.message =
              (IF ~body.parses THEN body.text
               ELSE Get(body.result, "Message", "Unknown error"))
        /\ i = Len(invocations)
        /\ pc = "done"
        /\ outcome = res
        /\ Len(sleeps) = i - 1

\* attempt i got a response that is a success: its result is returned
TreatedAsSuccess(i) ==
    /\ invocations[i].kind = "return"
    /\ i = Len(invocations)
    /\ pc = "done"
    /\ outcome = invocations[i]

Judged(i) ==
    IF ReportedStatus(invocations[i].response) \in {"SUCCESS", "PUBLISH TIMEOUT"}
    THEN TreatedAsSuccess(i)
    ELSE LoadErrorPropagates(i)

\* C19 as stated: every response is judged by its Status.
C19_Original == \A i \in Answers19 : Judged(i)

\* C19: a response other than an HTTP 401 or 403 whose Status is,
\* whatever the case of its letters, Success or Publish Timeout is treated
\* as success; with any other status, or a body that does not parse, a
\* DorisStreamLoadError carrying the reported message is raised, which is
\* never retried: it leaves with_retry right after the attempt, with no
\* sleep and no further request.
C19_LoadOutcome ==
    \A i \in Answers19 :
        invocations[i].response.status \notin {401, 403} => Judged(i)

\* a request was retried after a lost connection, and the answer to the
\* second one, with status Fail, ended with_retry with the load error
C19_Witness ==
    /\ Len(invocations) = 2
    /\ invocations[1].response = NoResponse
    /\ Len(sleeps) = 1
    /\ ReportedStatus(invocations[2].response) = "FAIL"
    /\ invocations[2].response.status = 200
    /\ LoadErrorPropagates(2)

(***************************************************************************)
(* Properties of the soft failures, the chunks of mutate, the live schema  *)
(* and the index names                                                     *)
(***************************************************************************)
\* the schema-change waits of the call at one of the places that timed out
TimedOutWaits(c, places) ==
    {i \in PositionsOf(c, "WAIT SCHEMA CHANGE") :
        /\ StatementsOf(c)[i].arg \in places
        /\ StatementsOf(c)[i].result = "timeout"}

\* the timeout of wait i of the call ended the call
TimeoutRaised(c, i) ==
    /\ i = Len(StatementsOf(c))
    /\ c.pc = "raised"
    /\ c.error = SchemaError("timeout")

\* C31: a schema-change wait that times out behind ALTER TABLE ADD COLUMN
\* or just before a CREATE INDEX raises nothing: the call goes on with its
\* next step.
C31_TimeoutIsSoft ==
    Called(setup) =>
        \A i \in TimedOutWaits(setup, {"wait_add", "wait_create"}) :
            ~TimeoutRaised(setup, i)

\* the same for the wait behind ALTER TABLE ADD COLUMN alone
TimeoutIsSoftAfterAdd ==
    Called(setup) =>
        \A i \in TimedOutWaits(setup, {"wait_add"}) : ~TimeoutRaised(setup, i)

\* the wait before a CREATE INDEX: its timeout ends the call
TimeoutIsFatalBeforeCreate ==
    Called(setup) =>
        \A i \in TimedOutWaits(setup, {"wait_create"}) : TimeoutRaised(setup, i)

\* the DROP INDEX statements of the call that failed
FailedDrops(c) ==
    {i \in PositionsOf(c, "DROP INDEX") :
        StatementsOf(c)[i].result \in {"error", "fault"}}

\* the DROP INDEX loop of the call is over
DropsOver(c) == Called(c) /\ c.synced /\ c.pc # "drop_index"

\* C32: every index of to_drop gets its DROP INDEX, once, whatever became
\* of the others; a DROP INDEX that failed raises nothing: a call that
\* raises behind it raises what the wait or the validation of an index to
\* add raised, and a call that returns has issued the CREATE INDEX of
\* every index to add.
C32_BestEffortDrop ==
    /\ (Called(setup) /\ setup.synced) =>
          /\ NamesIn(setup, "DROP INDEX") \cap setup.dropping = {}
          /\ Cardinality(PositionsOf(setup, "DROP INDEX"))
                = Cardinality(NamesIn(setup, "DROP INDEX"))
          /\ (setup.pc = "drop_index") = (setup.dropping # {})
    /\ DropsOver(setup) =>
          NamesIn(setup, "DROP INDEX") = setup.vec_to_drop \cup setup.inv_to_drop
    /\ (DropsOver(setup) /\ FailedDrops(setup) # {}) =>
          /\ setup.pc = "raised" =>
                /\ setup.error.cls = "DorisSchemaError"
                /\ \/ setup.error \in {SchemaError("timeout"),
                                       SchemaError("cancelled"),
                                       SchemaError("index build")}
                   \/ /\ setup.idx # None
                      /\ setup.error = SchemaError(setup.idx.field_name)
                      /\ ~Accepted(setup.idx, setup.actual_schema)
          /\ (setup.pc = "raised" /\ Len(StatementsOf(setup)) \in FailedDrops(setup)) =>
                setup.error \notin {SchemaError("timeout"),
                                    SchemaError("cancelled"),
                                    SchemaError("index build")}
          /\ setup.pc = "returned" =>
                NamesIn(setup, "CREATE INDEX")
                    = setup.vec_to_add \cup setup.inv_to_add

\* the first DROP INDEX of the call failed, the second dropped its index
\* and an index to add was created
C32_Witness ==
    /\ DropsOver(setup)
    /\ setup.pc = "returned"
    /\ LET drops == KindsOf(setup, {"DROP INDEX"})
           creates == KindsOf(setup, {"CREATE INDEX"})
       IN  /\ Len(drops) = 2
           /\ drops[1].result = "fault"
           /\ drops[2].result = "ok"
           /\ creates # <<>>
           /\ creates[1].result = "ok"

\* the most entries of a batch of the chunk specification
MaxChunked == 3

\* The row keys of PyKeys and a third of the same kind.
MoreKeys(ks) ==
    PyKeys(ks) \o
        (IF Len(ks) > 1 THEN <<PyTuple(<<PyInt(2), PyStr(<<97>>)>>)>>
         ELSE IF ks[1].type = "Bytes" THEN <<PyBytes(<<65>>)>>
         ELSE <<PyInt(3)>>)

\* batches of upserts and deletes of up to n of the keys, in their order
RECURSIVE ChunkBatches(_, _)
ChunkBatches(keys, n) ==
    IF n = 0 \/ keys = <<>> THEN {<<>>}
    ELSE ChunkBatches(Tail(keys), n)
            \cup {<<[key |-> Head(keys), value |-> v]>> \o rest :
                    v \in {PyDict([content |-> PyStr(<<65>>)]), PyNone},
                    rest \in ChunkBatches(Tail(keys), n - 1)}

\* mutate is called with one pair whose batch has up to MaxChunked entries
ChunkMutations ==
    {<<pair>> :
        pair \in Pairs(Prepared,
                       ChunkBatches(MoreKeys(setup_state.key_fields_schema),
                                    MaxChunked))}

\* prepare has made the context of the first table
InitChunk ==
    /\ spec \in [batch_size : 1..MaxBatchSize, max_retries : 0..MaxStoreRetries]
    /\ setup_state \in MutateStates
    /\ contexts = [ctx \in ContextIds |->
                     IF ctx = "c1"
                     THEN [table |-> OwnTable(ctx), lock |-> 0, waiters |-> <<>>]
                     ELSE [table |-> "None", lock |-> 0, waiters |-> <<>>]]
    /\ table = [tbl \in TableNames |-> EmptyBag]
    /\ calls = [t \in Tasks |-> IdleCall]
    /\ history = [ncalls |-> 0, faults |-> 0, overlap |-> FALSE,
                  raised |-> FALSE,
                  last |-> [tbl \in TableNames |->
                              [k \in Range(PyKeys(setup_state.key_fields_schema)) |-> Unset]]]
    /\ RetryIdle
    /\ CompatIdle
    /\ SetupIdle

NextChunk ==
    \/ \E all_mutations \in ChunkMutations : Mutate(1, all_mutations)
    \/ PreDelete(1)
    \/ StreamLoad(1)
    \/ TombstoneDelete(1)

SpecChunk == InitChunk /\ [][NextChunk]_vars

\* the batches the call handed over in one of its three loops
BatchesOf(c, step) ==
    LET in_step == SelectSeq(c.chunks, LAMBDA ch : ch.step = step)
    IN  [j \in DOMAIN in_step |-> in_step[j].batch]

RECURSIVE Concatenated(_)
Concatenated(batches) ==
    IF batches = <<>> THEN <<>>
    ELSE Head(batches) \o Concatenated(Tail(batches))

\* ceil(n / b)
CeilDiv(n, b) == (n + b - 1) \div b

\* the batches are consecutive chunks of list, of b entries each but for
\* the last, and all of them when the loop is over
ChunksOfList(batches, list, b, over) ==
    /\ \A j \in DOMAIN batches :
          /\ batches[j] # <<>>
          /\ Len(batches[j]) <= b
          /\ j < Len(batches) => Len(batches[j]) = b
    /\ Len(Concatenated(batches)) <= Len(list)
    /\ Concatenated(batches) = SubSeq(list, 1, Len(Concatenated(batches)))
    /\ over => /\ Concatenated(batches) = list
               /\ Len(batches) = CeilDiv(Len(list), b)
               /\ list = <<>> => batches = <<>>

\* C33: with batch size b >= 1 the upsert keys, the upsert rows and the
\* tombstone keys of a batch are each handed over in consecutive chunks of
\* at most b entries, in order and every entry in one chunk only: a loop
\* that is over has made ceil(n/b) calls for its n entries, and none for
\* an empty list.
C33_Chunking ==
    LET c == calls[1]
        b == spec.batch_size
    IN  (c.pc # "idle" /\ c.pairs # <<>>) =>
           LET mutations == c.pairs[1].mutations
               upserts == Upserts(setup_state, mutations)
               deletes == Deletes(setup_state, mutations)
           IN  /\ b >= 1
               /\ ChunksOfList(BatchesOf(c, "predelete"),
                               UpsertKeys(setup_state, upserts), b,
                               c.pc \in {"load", "tombstone", "returned"})
               /\ ChunksOfList(BatchesOf(c, "load"), upserts, b,
                               c.pc \in {"tombstone", "returned"})
               /\ ChunksOfList(BatchesOf(c, "tombstone"), deletes, b,
                               c.pc = "returned")

\* a batch of three upserts was handed over with batch size 2: two deletes
\* and two loads, of two entries and of one
C33_Witness ==
    LET c == calls[1] IN
    /\ c.pc = "returned"
    /\ spec.batch_size = 2
    /\ Len(c.upserts) = 3
    /\ Len(BatchesOf(c, "predelete")) = 2
    /\ Len(BatchesOf(c, "load")) = 2
    /\ Len(BatchesOf(c, "load")[1]) = 2
    /\ Len(BatchesOf(c, "load")[2]) = 1
    /\ history.faults = 1

\* the rows of bag with the key of one of the key dicts
RowsOfKeys(bag, key_dicts) ==
    {r \in DOMAIN bag : \E j \in DOMAIN key_dicts : HasKey(r, key_dicts[j])}

\* a call for a table with a composite key whose one pair holds tombstones
\* only
CompositeDeleteCall(c) ==
    /\ c.pc # "idle"
    /\ Len(setup_state.key_fields_schema) > 1
    /\ Len(c.pairs) = 1
    /\ Upserts(setup_state, c.pairs[1].mutations) = <<>>
    /\ Deletes(setup_state, c.pairs[1].mutations) # <<>>

\* C34: a chunk of composite keys is deleted by one row-delete per key, and
\* with_retry around the chunk begins again at its first key after a
\* retryable failure; a call that returns has removed exactly the rows with
\* the keys of its chunks, as if every chunk had succeeded at once, and no
\* other row of the table is touched at any time.
C34_CompositeDeleteRetry ==
    LET c == calls[1] IN
    /\ c.pc \in {"predelete", "tombstone"} =>
          LET list == IF c.pc = "predelete"
                      THEN UpsertKeys(setup_state, c.upserts) ELSE c.deletes
              batch == Chunk(list, c.i, spec.batch_size)
          IN  IF Len(setup_state.key_fields_schema) > 1
              THEN c.pos < Len(batch)
              ELSE c.pos = 0 /\ c.redone = 0
    /\ CompositeDeleteCall(c) =>
          LET tbl == contexts[c.pairs[1].context].table
              deletes == Deletes(setup_state, c.pairs[1].mutations)
              gone == RowsOfKeys(c.pre[tbl], deletes)
              kept == DOMAIN c.pre[tbl] \ gone
          IN  /\ \A r \in kept : r \in DOMAIN table[tbl]
                                  /\ table[tbl][r] = c.pre[tbl][r]
              /\ DOMAIN table[tbl] \subseteq DOMAIN c.pre[tbl]
              /\ c.pc = "returned" => DOMAIN table[tbl] = kept

\* a chunk of two composite keys lost its connection after its first
\* row-delete, was done again from its first key, and left the third row
C34_Witness ==
    LET c == calls[1] IN
    /\ CompositeDeleteCall(c)
    /\ c.pc = "returned"
    /\ c.redone = 1
    /\ Len(c.chunks) = 1
    /\ Len(c.chunks[1].batch) = 2
    /\ Cardinality(DOMAIN c.pre["t1"]) = 3
    /\ Cardinality(DOMAIN table["t1"]) = 1

\* the tombstone keys of the one pair of the call, and those handed to
\* _execute_delete
TombstonesOf(c) == Deletes(setup_state, c.pairs[1].mutations)

TombstonesHanded(c) == Concatenated(BatchesOf(c, "tombstone"))

\* a call with one pair has ended, and not by a failure of one of its
\* explicit deletes
EndedOutsideTombstones(c) ==
    /\ Ended(c)
    /\ Len(c.pairs) = 1
    /\ c.failed_in # "tombstone"

\* C35 as stated: the explicit deletes of a batch are executed whether or
\* not the batch has upserts and whatever became of its upsert path.
C35_Original ==
    EndedOutsideTombstones(calls[1]) =>
        TombstonesHanded(calls[1]) = TombstonesOf(calls[1])

\* C35: the explicit deletes of a batch are executed whether or not the
\* batch has upserts, after the upsert path when it has; when the upsert
\* path raises (a delete of existing rows or a bulk load failed), mutate
\* raises and no explicit delete of the batch is executed.
C35_TombstonesAfterUpserts ==
    LET c == calls[1] IN
    (c.pc # "idle" /\ Len(c.pairs) = 1) =>
        LET tbl == contexts[c.pairs[1].context].table
            upserts == Upserts(setup_state, c.pairs[1].mutations)
        IN  /\ c.pc = "returned" =>
                  /\ TombstonesHanded(c) = TombstonesOf(c)
                  /\ RowsOfKeys(table[tbl], TombstonesOf(c)) = {}
            /\ TombstonesHanded(c) # <<>> =>
                  /\ Concatenated(BatchesOf(c, "predelete"))
                        = UpsertKeys(setup_state, upserts)
                  /\ Concatenated(BatchesOf(c, "load")) = upserts
                  /\ c.failed_in \in {"", "tombstone"}
            /\ (c.pc = "raised" /\ c.failed_in \in {"predelete", "load"}) =>
                  TombstonesHanded(c) = <<>>

\* a batch of two upserts and one tombstone: the rows were loaded and the
\* row of the tombstone, which the table had, is gone
C35_Witness ==
    LET c == calls[1] IN
    /\ c.pc = "returned"
    /\ Len(c.pairs) = 1
    /\ Len(Upserts(setup_state, c.pairs[1].mutations)) = 2
    /\ Len(TombstonesOf(c)) = 1
    /\ TombstonesHanded(c) = TombstonesOf(c)
    /\ RowsOfKeys(c.pre["t1"], TombstonesOf(c)) # {}
    /\ RowsOfKeys(table["t1"], TombstonesOf(c)) = {}
    /\ Cardinality(DOMAIN table["t1"]) >= 2

\* what _get_table_schema would read from the store now
LiveSchema ==
    [n \in DOMAIN store.columns |->
        [name |-> n,
         doris_type |-> Upper(store.columns[n].doris_type),
         nullable |-> store.columns[n].nullable,
         is_key |-> store.columns[n].is_key,
         dimension |-> DimensionIn(store.columns[n].doris_type)]]

\* the schema the call holds, its types in upper case as every comparison
\* of the validation reads them
HeldSchema(c) ==
    [n \in DOMAIN c.actual_schema |->
        [c.actual_schema[n] EXCEPT !.doris_type = Upper(@)]]

\* _sync_indexes has been entered for an existing table and has issued
\* nothing yet: the store is the one of the moment of its call
SchemaHandedOver(c) ==
    /\ Called(c) /\ c.synced /\ c.has_schema
    /\ KindsOf(c, {"DROP INDEX", "CREATE INDEX", "BUILD INDEX"}) = <<>>
    /\ \A i \in PositionsOf(c, "WAIT SCHEMA CHANGE") :
          StatementsOf(c)[i].arg = "wait_add"
    /\ c.pc = "wait_create" => c.polls = 0

\* the ALTER TABLE ADD COLUMN statements of the call that were accepted
AcceptedAdds(c) ==
    {i \in PositionsOf(c, "ADD COLUMN") : StatementsOf(c)[i].result = "ok"}

\* C36: the schema _sync_indexes validates the indexes to add against is
\* the one the store reports at that moment, behind the column additions
\* of the call: the same columns with the same types, nullability and
\* dimensions.
C36_FreshSchema ==
    SchemaHandedOver(setup) => HeldSchema(setup) = LiveSchema

\* a call that added no column hands over the schema it read at its start,
\* which is the one the store still reports
SchemaOfDescribeHandedOver ==
    (SchemaHandedOver(setup) /\ AcceptedAdds(setup) = {}) =>
        HeldSchema(setup) = LiveSchema

\* the columns of the call's own ALTER statements are handed over as
\* declared: dimension and type are those of the declared field
AddedHandedOverAsDeclared ==
    SchemaHandedOver(setup) =>
        \A i \in DOMAIN setup.current.value_fields_schema :
            LET field == setup.current.value_fields_schema[i] IN
            (field.name \in setup.missing_columns
                /\ field.name \in DOMAIN setup.actual_schema) =>
                /\ setup.actual_schema[field.name].dimension
                      = ExtractVectorDimension(field.type)
                /\ setup.actual_schema[field.name].doris_type
                      = ConvertValueTypeToDorisType(field.type)

MaxIndexDefs == 2

\* VectorIndexDef of IndexOptions: field_name, metric, method.  A method
\* stands for its class and its numbers (m and ef_construction of Hnsw,
\* lists of IvfFlat), which get_setup_state copies as they are.
VectorIndexDefs ==
    [field_name : {"embedding", "content"},
     metric : {"L2_DISTANCE", "INNER_PRODUCT", "COSINE_SIMILARITY"},
     method : {"None", "Hnsw", "IvfFlat"}]

\* FtsIndexDef of IndexOptions: field_name and parameters["parser"]
FtsIndexDefs == [field_name : {"content", "extra"}, parser : {"english", "unicode"}]

\* the lists of up to MaxIndexDefs definitions in which no definition is
\* written twice
DefLists(defs) ==
    {list \in SeqsUpTo(defs, MaxIndexDefs) :
        \A i, j \in DOMAIN list : list[i] = list[j] => i = j}

\* IndexOptions: the two lists of requested definitions, in any order; a
\* field may have several definitions
RequestedIndexOptions ==
    [vector_indexes : DefLists(VectorIndexDefs),
     fts_indexes : DefLists(FtsIndexDefs)]

\* the value fields get_setup_state is called with: embedding with and
\* without a fixed dimension
RequestedValueSchemas ==
    {<<FieldSchema("content", "Str", TRUE), FieldSchema("embedding", type, FALSE)>> :
        type \in {"Vector3", "Vector"}}

\* the key fields get_setup_state is called with, the empty list among them
RequestedKeySchemas == {<<>>, <<FieldSchema("id", "Int64", FALSE)>>}

ValueError == [cls |-> "ValueError"]

\* _DORIS_VECTOR_METRIC as _get_doris_metric_type reads it
GetDorisMetricType(metric) ==
    CASE metric = "L2_DISTANCE" -> "l2_distance"
      [] metric = "INNER_PRODUCT" -> "inner_product"
      [] OTHER -> "cosine_distance"

\* _get_vector_dimension: the dimension of the first field of the name,
\* none when the field is missing or no vector of a fixed dimension
GetVectorDimension(value_fields_schema, field_name) ==
    LET at == {i \in DOMAIN value_fields_schema :
                  value_fields_schema[i].name = field_name}
    IN  IF at = {} THEN NoDimension
        ELSE LET field == value_fields_schema[CHOOSE i \in at : \A j \in at : i <= j]
             IN  IF IsVectorKind(field.type) THEN ExtractVectorDimension(field.type)
                 ELSE NoDimension

\* f"idx_{idx.field_name}_ann"
VectorIndexName(field_name) ==
    CASE field_name = "embedding" -> "idx_embedding_ann"
      [] field_name = "content" -> "idx_content_ann"
      [] field_name = "summary" -> "idx_summary_ann"
      [] OTHER -> "idx_extra_ann"

\* f"idx_{idx.field_name}_inv"
InvertedIndexName(field_name) ==
    CASE field_name = "content" -> "idx_content_inv"
      [] field_name = "my-col" -> "idx_my-col_inv"
      [] OTHER -> "idx_extra_inv"

\* "Determine index type and parameters from method"
IndexTypeOf(method) == IF method = "IvfFlat" THEN "ivf" ELSE "hnsw"

\* "Extract vector indexes": definitions of the cosine metric and of fields
\* without a fixed dimension are skipped, the others named by their field
ExtractVectorIndexes(value_fields_schema, defs) ==
    LET kept == SelectSeq(defs, LAMBDA idx :
                    /\ GetDorisMetricType(idx.metric) # "cosine_distance"
                    /\ GetVectorDimension(value_fields_schema, idx.field_name)
                          # NoDimension)
    IN  [i \in DOMAIN kept |->
            [name |-> VectorIndexName(kept[i].field_name),
             field_name |-> kept[i].field_name,
             index_type |-> IndexTypeOf(kept[i].method),
             metric_type |-> GetDorisMetricType(kept[i].metric),
             dimension |-> GetVectorDimension(value_fields_schema,
                                              kept[i].field_name)]]

\* "Extract FTS indexes"
ExtractInvertedIndexes(defs) ==
    [i \in DOMAIN defs |->
        [name |-> InvertedIndexName(defs[i].field_name),
         field_name |-> defs[i].field_name,
         parser |-> defs[i].parser]]

\* _Connector.get_setup_state, as far as the schema is concerned; a list
\* that is None is the empty sequence
get_setup_state(mode, key_fields_schema, value_fields_schema, index_options) ==
    IF Len(key_fields_schema) = 0 THEN ValueError
    ELSE [key_fields_schema |-> key_fields_schema,
          value_fields_schema |-> value_fields_schema,
          vector_indexes |-> ExtractVectorIndexes(value_fields_schema,
                                                  index_options.vector_indexes),
          inverted_indexes |-> ExtractInvertedIndexes(index_options.fts_indexes),
          schema_evolution |-> mode]

\* No state has been asked for yet.
InitState ==
    /\ previous = None
    /\ current = None
    /\ compat = "None"
    /\ RetryIdle
    /\ MutateIdle
    /\ SetupIdle

\* The orchestrator calls get_setup_state, once, for the flow it is given.
GetSetupState ==
    /\ current = None
    /\ \E mode \in {"extend", "strict"}, ks \in RequestedKeySchemas,
          vs \in RequestedValueSchemas, index_options \in RequestedIndexOptions :
         current' = get_setup_state(mode, ks, vs, index_options)
    /\ UNCHANGED <<previous, compat>>
    /\ UNCHANGED <<retryVars, mutateVars, setupVars>>

NextState == GetSetupState

SpecState == InitState /\ [][NextState]_vars

\* get_setup_state has returned a _State
StateProduced == current # None /\ current # ValueError

\* C37: in every state get_setup_state returns, no two vector indexes and
\* no two inverted indexes have the same name, so that the dicts by name
\* of _sync_indexes hold every index of the state.
C37_IndexNamesUnique ==
    StateProduced =>
        /\ DistinctNames(current.vector_indexes)
        /\ DistinctNames(current.inverted_indexes)
        /\ Range(ByName(current.vector_indexes)) = Range(current.vector_indexes)
        /\ Range(ByName(current.inverted_indexes)) = Range(current.inverted_indexes)

\* the name of an index is the one of its field: two indexes of one kind
\* have the same name exactly when they are on the same field
NamedByField ==
    StateProduced =>
        /\ \A i, j \in DOMAIN current.vector_indexes :
              (current.vector_indexes[i].name = current.vector_indexes[j].name)
                 = (current.vector_indexes[i].field_name
                       = current.vector_indexes[j].field_name)
        /\ \A i, j \in DOMAIN current.inverted_indexes :
              (current.inverted_indexes[i].name = current.inverted_indexes[j].name)
                 = (current.inverted_indexes[i].field_name
                       = current.inverted_indexes[j].field_name)

\* two definitions on one field with different parameters are both in the
\* state under one name, and the dict by name holds the later one only
TwoDefinitionsOneName ==
    /\ StateProduced
    /\ Len(current.inverted_indexes) = 2
    /\ current.inverted_indexes[1].name = current.inverted_indexes[2].name
    /\ current.inverted_indexes[1] # current.inverted_indexes[2]
    /\ Range(ByName(current.inverted_indexes)) = {current.inverted_indexes[2]}

\* The argument lists drawn for the calls on one table: one pair on a
\* prepared context that upserts or deletes the first key.
SharedMutations ==
    LET keys == PyKeys(setup_state.key_fields_schema)
    IN  {<<pair>> :
            pair \in Pairs(Prepared,
                           {<<[key |-> keys[1], value |-> v]>> :
                               v \in {PyDict([content |-> PyStr(<<65>>)]), PyNone}})}

\* prepare is called for the same table by every context: each call
\* builds a _MutateContext with a lock of its own
NextShared ==
    \/ \E ctx \in ContextIds : Prepare(ctx, "t1")
    \/ \E t \in Tasks, all_mutations \in SharedMutations :
           Mutate(t, all_mutations)
    \/ \E t \in Tasks : AcquireLock(t)
    \/ \E t \in Tasks : PreDelete(t)
    \/ \E t \in Tasks : StreamLoad(t)
    \/ \E t \in Tasks : TombstoneDelete(t)

SpecShared == InitConcurrent /\ [][NextShared]_vars

\* the table of the pair the call is at
TableOf(c) == contexts[ContextOf(c)].table

\* the calls are over, none raised, and they overlapped in time
BothReturned ==
    /\ history.overlap
    /\ \A t \in Tasks : calls[t].pc = "returned"

\* the keys of the table that some call upserted and no call deleted
UpsertedOnly(tbl) ==
    LET Entries(t) == {calls[t].pairs[1].mutations[j] :
                          j \in DOMAIN calls[t].pairs[1].mutations}
        Of(t) == IF contexts[calls[t].pairs[1].context].table = tbl
                 THEN Entries(t) ELSE {}
        all == UNION {Of(t) : t \in Tasks}
    IN  {m.key : m \in {e \in all : IsUpsert(e)}}
            \ {m.key : m \in {e \in all : IsDelete(e)}}

\* C38: two calls are never inside the delete/load sequences of the same
\* table at a time, whatever contexts they go through, and after two
\* overlapping calls that returned every key they upserted has exactly one
\* row.
C38_TableSerializes ==
    /\ \A t \in Tasks, u \in Tasks :
          (t # u /\ Running(calls[t]) /\ Running(calls[u])) =>
              TableOf(calls[t]) # TableOf(calls[u])
    /\ BothReturned =>
          \A key \in UpsertedOnly("t1") :
              CountWithKey(table["t1"], StoreKey(key)) = 1

\* two calls through the same context are never in their sequences at a
\* time: the lock is the one of the context
SameContextSerializes ==
    \A t \in Tasks, u \in Tasks :
        (t # u /\ Running(calls[t]) /\ Running(calls[u])) =>
            ContextOf(calls[t]) # ContextOf(calls[u])

\* two calls through two contexts of one table both deleted the rows of
\* the key before either loaded: the key has two rows
TwoRowsOfOneKey ==
    /\ BothReturned
    /\ calls[1].pairs[1].context # calls[2].pairs[1].context
    /\ \E key \in UpsertedOnly("t1") :
          CountWithKey(table["t1"], StoreKey(key)) = 2

\* the call went the alter path of a table it did not drop, and returned
AlteredAndReturned(c) ==
    /\ AlterPath(c)
    /\ c.pc = "returned"
    /\ KindsOf(c, {"DROP TABLE"}) = <<>>

\* the value columns current declares that the table of the store lacks
UndeclaredInStore(c) == Names(c.current.value_fields_schema) \ DOMAIN store.columns

\* the ALTER TABLE ADD COLUMN statements of the call that failed
FailedAdds(c) ==
    {i \in PositionsOf(c, "ADD COLUMN") :
        StatementsOf(c)[i].result \in {"error", "fault"}}

\* C39: when apply_setup_change returns for a table that existed, every
\* value column declared in current is a column of the live table,
\* whatever became of the ALTER TABLE ADD COLUMN statements and of the
\* waits behind them.
C39_DeclaredColumnsExist ==
    AlteredAndReturned(setup) => UndeclaredInStore(setup) = {}

\* the same when every ADD COLUMN of the call was accepted and no schema
\* change behind one was cancelled
DeclaredColumnsExistWhenAdded ==
    (AlteredAndReturned(setup)
        /\ FailedAdds(setup) = {}
        /\ CancelledWaits(setup, {"wait_add"}) = <<>>) =>
        UndeclaredInStore(setup) = {}

\* a call returned although its only ADD COLUMN was refused: the declared
\* column is not in the table
ReturnedWithoutColumn ==
    /\ AlteredAndReturned(setup)
    /\ FailedAdds(setup) # {}
    /\ CancelledWaits(setup, {"wait_add"}) = <<>>
    /\ UndeclaredInStore(setup) # {}

\* the names of the indexes of the call that are in previous and in
\* current with changed parameters: dropped and added again
ChangedNames(c) ==
    (c.vec_to_drop \cap c.vec_to_add) \cup (c.inv_to_drop \cap c.inv_to_add)

\* the DROP INDEX statements of the name issued before statement j, all of
\* them or the accepted ones
DropsBefore(c, name, j, results) ==
    {i \in PositionsOf(c, "DROP INDEX") :
        /\ i < j
        /\ StatementsOf(c)[i].arg = name
        /\ StatementsOf(c)[i].result \in results}

\* a schema-change wait at the place that ended finished, between the
\* statements i and j of the call
FinishedWaitBetween(c, place, i, j) ==
    \E w \in PositionsOf(c, "WAIT SCHEMA CHANGE") :
        /\ i < w /\ w < j
        /\ StatementsOf(c)[w].arg = place
        /\ StatementsOf(c)[w].result = "finished"

\* the CREATE INDEX statements of the changed indexes
ChangedCreates(c) ==
    {j \in PositionsOf(c, "CREATE INDEX") : StatementsOf(c)[j].arg \in ChangedNames(c)}

\* C40 as stated: the CREATE INDEX of a changed index is issued only after
\* its DROP INDEX succeeded and the schema change was waited for; after a
\* failed DROP INDEX no CREATE INDEX of the name is issued in the call.
C40_Original ==
    (Called(setup) /\ setup.synced) =>
        \A j \in ChangedCreates(setup) :
            \E i \in DropsBefore(setup, StatementsOf(setup)[j].arg, j, {"ok"}) :
                FinishedWaitBetween(setup, "wait_dropped", i, j)

\* C40 amended: the CREATE INDEX of a changed index is issued only after
\* its DROP INDEX was issued, whether it succeeded or failed, and right
\* after a schema-change wait that finished; when some DROP INDEX of the
\* call succeeded, the wait behind the DROP INDEX loop finished before it.
C40_CreateAfterDropIssued ==
    (Called(setup) /\ setup.synced) =>
        \A j \in ChangedCreates(setup) :
            LET sts == StatementsOf(setup)
                name == sts[j].arg
            IN  /\ DropsBefore(setup, name, j, {"ok", "error", "fault"}) # {}
                /\ sts[j - 1].sql = "WAIT SCHEMA CHANGE"
                /\ sts[j - 1].arg = "wait_create"
                /\ sts[j - 1].result = "finished"
                /\ \A i \in PositionsOf(setup, "DROP INDEX") :
                      sts[i].result = "ok" =>
                          FinishedWaitBetween(setup, "wait_dropped", i, j)

\* the DROP INDEX of a changed index failed and its CREATE INDEX was issued
\* all the same; another index of the call was dropped and waited for
C40_Witness ==
    /\ Called(setup) /\ setup.synced
    /\ \E j \in ChangedCreates(setup) :
          /\ DropsBefore(setup, StatementsOf(setup)[j].arg, j, {"ok"}) = {}
          /\ DropsBefore(setup, StatementsOf(setup)[j].arg, j, {"error", "fault"}) # {}

====
